---- MODULE Spec2Model ----
(***************************************************************************)
(* Workspace analysis and query-context pipeline of the AI Code Snippet    *)
(* RAG extension (extension.ts, WebviewProvider.ts): file classifier,      *)
(* fingerprinter, workspace analyzer, analysis cache and query client.     *)
(*                                                                         *)
(* Character strings are TLA+ strings; TLC evaluates Len, \o and SubSeq on *)
(* them, so the string functions of the source are computed character by   *)
(* character.                                                              *)
(***************************************************************************)
EXTENDS Integers, Sequences, FiniteSets, TLC

VARIABLES
    clsPath,            \* classifier run: the path handed to isSensitiveFile
    clsVariant,         \* classifier run: a case / separator variant of clsPath
    clsFlips,           \* classifier run: number of characters re-spelled in clsVariant
    clsOut,             \* classifier run: results, or NotRun
    fpA,                \* fingerprint run: first FileInfo list
    fpB,                \* fingerprint run: second FileInfo list
    fpOut,              \* fingerprint run: the two fingerprints, or NotRun
    active,             \* the extension is activated and not yet deactivated
    workspaceFolders,   \* vscode.workspace.workspaceFolders
    config,             \* the aiCodeSnippetRag settings
    disk,               \* the files on disk, by fsPath
    envChanges,         \* number of changes the environment has made so far
    analysisCache,      \* analysisCache: cache key -> WorkspaceAnalysis or NoEntry
    task,               \* the analyzeWorkspace invocations, by slot
    queryConfig,        \* the serverUrl and requestTimeoutMs settings
    query,              \* the sendQuery invocations, by slot
    rndResponse,        \* renderer run: the QueryResponse handed to renderResponse
    rndOut,             \* renderer run: what renderResponse gave, or NotRun
    connTest,           \* the testConnection invocation
    isLoading,          \* webview script: isLoading
    toExtension,        \* messages the webview script has posted, not yet received
    toWebview,          \* messages the provider has posted, not yet received
    conversationHistory,\* WebviewProvider._conversationHistory
    handler,            \* the WebviewProvider._handleQuery invocations, by slot
    sends               \* number of texts the user has submitted so far

clsVars == <<clsPath, clsVariant, clsFlips, clsOut>>
fpVars == <<fpA, fpB, fpOut>>
envVars == <<workspaceFolders, config, disk, envChanges>>
anaVars == <<active, envVars, analysisCache, task>>
qryVars == <<queryConfig, query>>
rndVars == <<rndResponse, rndOut>>
tcVars == <<connTest>>
pnlVars == <<isLoading, toExtension, toWebview, conversationHistory, handler, sends>>
vars == <<clsVars, fpVars, anaVars, qryVars, rndVars, tcVars, pnlVars>>

\* What the actions of one component leave alone.
clsOthers == <<fpVars, anaVars, qryVars, rndVars, tcVars, pnlVars>>
fpOthers == <<clsVars, anaVars, qryVars, rndVars, tcVars, pnlVars>>
anaOthers == <<clsVars, fpVars, qryVars, rndVars, tcVars, pnlVars>>
qryOthers == <<clsVars, fpVars, anaVars, rndVars, tcVars, pnlVars>>
rndOthers == <<clsVars, fpVars, anaVars, qryVars, tcVars, pnlVars>>
tcOthers == <<clsVars, fpVars, anaVars, qryVars, rndVars, pnlVars>>
pnlOthers == <<clsVars, fpVars, anaVars, qryVars, rndVars, tcVars>>

NotRun == [done |-> FALSE]

(***************************************************************************)
(* Bounds of the model.                                                    *)
(***************************************************************************)
MaxFlips == 2
MaxFpLen == 2
MaxTasks == 2
MaxEnvChanges == 1
MaxQueries == 1
MaxAnswers == 3
MaxOverlap == 2
MaxSends == 2

(***************************************************************************)
(* JavaScript string primitives.                                           *)
(***************************************************************************)
Min(a, b) == IF a <= b THEN a ELSE b

CharAt(s, i) == SubSeq(s, i, i)

\* String.prototype.substring(0, n) / slice(from) on 1-based positions.
Prefix(s, n) == SubSeq(s, 1, Min(n, Len(s)))
Suffix(s, from) == SubSeq(s, from, Len(s))

startsWith(s, t) == Len(t) <= Len(s) /\ SubSeq(s, 1, Len(t)) = t
endsWith(s, t) == Len(t) <= Len(s) /\ SubSeq(s, Len(s) - Len(t) + 1, Len(s)) = t
includes(s, t) == \E i \in 1..(Len(s) - Len(t) + 1) : SubSeq(s, i, i + Len(t) - 1) = t

UpperLetters == "ABCDEFGHIJKLMNOPQRSTUVWXYZ"
LowerLetters == "abcdefghijklmnopqrstuvwxyz"

LowerChar(c) ==
    IF \E i \in 1..Len(UpperLetters) : CharAt(UpperLetters, i) = c
    THEN CharAt(LowerLetters, CHOOSE i \in 1..Len(UpperLetters) : CharAt(UpperLetters, i) = c)
    ELSE c

UpperChar(c) ==
    IF \E i \in 1..Len(LowerLetters) : CharAt(LowerLetters, i) = c
    THEN CharAt(UpperLetters, CHOOSE i \in 1..Len(LowerLetters) : CharAt(LowerLetters, i) = c)
    ELSE c

RECURSIVE toLowerCase(_)
toLowerCase(s) ==
    IF s = "" THEN "" ELSE LowerChar(CharAt(s, 1)) \o toLowerCase(Suffix(s, 2))

\* filePath.replace(/\\/g, '/')
RECURSIVE replaceBackslashes(_)
replaceBackslashes(s) ==
    IF s = "" THEN ""
    ELSE (IF CharAt(s, 1) = "\\" THEN "/" ELSE CharAt(s, 1)) \o replaceBackslashes(Suffix(s, 2))

\* The characters of the model in UTF-16 code-unit order: Array.prototype.sort()
\* without a comparator orders strings by code units.
CodeUnitOrder == "\n -./0123456789:ABCDEFGHIJKLMNOPQRSTUVWXYZ\\_abcdefghijklmnopqrstuvwxyz|"
CodeUnit(c) == CHOOSE i \in 1..Len(CodeUnitOrder) : CharAt(CodeUnitOrder, i) = c

RECURSIVE StringLess(_, _)
StringLess(a, b) ==
    IF b = "" THEN FALSE
    ELSE IF a = "" THEN TRUE
    ELSE IF CharAt(a, 1) = CharAt(b, 1) THEN StringLess(Suffix(a, 2), Suffix(b, 2))
    ELSE CodeUnit(CharAt(a, 1)) < CodeUnit(CharAt(b, 1))

\* Template-literal formatting of a non-negative integer: `${n}`.
Digits == "0123456789"
RECURSIVE NumberToString(_)
NumberToString(n) ==
    IF n < 10 THEN CharAt(Digits, n + 1)
    ELSE NumberToString(n \div 10) \o CharAt(Digits, (n % 10) + 1)

(***************************************************************************)
(* Node's path module (posix flavour) on '/'-separated paths.              *)
(***************************************************************************)
\* Length of s without its trailing slashes.
RECURSIVE TrimmedEnd(_)
TrimmedEnd(s) ==
    IF s # "" /\ CharAt(s, Len(s)) = "/" THEN TrimmedEnd(SubSeq(s, 1, Len(s) - 1)) ELSE Len(s)

\* Position of the last '/' among the first n characters, 0 if none.
LastSlash(s, n) ==
    IF \E i \in 1..n : CharAt(s, i) = "/"
    THEN CHOOSE i \in 1..n : CharAt(s, i) = "/" /\ \A j \in (i + 1)..n : CharAt(s, j) # "/"
    ELSE 0

basename(p) ==
    LET end == TrimmedEnd(p)
    IN  SubSeq(p, LastSlash(p, end) + 1, end)

dirname(p) ==
    LET end == TrimmedEnd(p)
        cut == LastSlash(p, end)
    IN  IF p = "" THEN "."
        ELSE IF cut <= 1 THEN (IF CharAt(p, 1) = "/" THEN "/" ELSE ".")
        ELSE SubSeq(p, 1, cut - 1)

extname(p) ==
    LET b == basename(p)
        dots == {i \in 1..Len(b) : CharAt(b, i) = "."}
        lastDot == CHOOSE i \in dots : \A j \in dots : j <= i
    IN  IF dots = {} \/ lastDot = 1 \/ b = ".." THEN "" ELSE Suffix(b, lastDot)

(***************************************************************************)
(* File classifier.                                                        *)
(***************************************************************************)
TEXT_FILE_EXTENSIONS ==
    { ".ts", ".tsx", ".js", ".jsx", ".py", ".cs", ".java", ".go", ".rs",
      ".md", ".json", ".yml", ".yaml", ".toml", ".xml", ".html", ".css",
      ".scss", ".less", ".sql", ".sh", ".bash", ".ps1", ".bat", ".cmd",
      ".cpp", ".c", ".h", ".hpp", ".cc", ".cxx", ".m", ".mm", ".swift",
      ".php", ".rb", ".pl", ".lua", ".r", ".scala", ".kt", ".dart",
      ".vue", ".svelte" }

NoLanguage == "undefined"

\* The langMap object of getLanguageId: langMap[ext], undefined for a missing key.
langMap(ext) ==
        CASE ext = ".ts" -> "typescript"
          [] ext = ".tsx" -> "typescriptreact"
          [] ext = ".js" -> "javascript"
          [] ext = ".jsx" -> "javascriptreact"
          [] ext = ".py" -> "python"
          [] ext = ".cs" -> "csharp"
          [] ext = ".java" -> "java"
          [] ext = ".go" -> "go"
          [] ext = ".rs" -> "rust"
          [] ext = ".md" -> "markdown"
          [] ext = ".json" -> "json"
          [] ext \in {".yml", ".yaml"} -> "yaml"
          [] ext = ".toml" -> "toml"
          [] ext = ".xml" -> "xml"
          [] ext = ".html" -> "html"
          [] ext = ".css" -> "css"
          [] ext = ".scss" -> "scss"
          [] ext = ".less" -> "less"
          [] ext = ".sql" -> "sql"
          [] ext \in {".sh", ".bash"} -> "shellscript"
          [] ext = ".ps1" -> "powershell"
          [] ext \in {".bat", ".cmd"} -> "bat"
          [] ext \in {".cpp", ".hpp", ".cc", ".cxx"} -> "cpp"
          [] ext \in {".c", ".h"} -> "c"
          [] ext = ".m" -> "objective-c"
          [] ext = ".mm" -> "objective-cpp"
          [] ext = ".swift" -> "swift"
          [] ext = ".php" -> "php"
          [] ext = ".rb" -> "ruby"
          [] ext = ".pl" -> "perl"
          [] ext = ".lua" -> "lua"
          [] ext = ".r" -> "r"
          [] ext = ".scala" -> "scala"
          [] ext = ".kt" -> "kotlin"
          [] ext = ".dart" -> "dart"
          [] ext = ".vue" -> "vue"
          [] ext = ".svelte" -> "svelte"
          [] OTHER -> NoLanguage

getLanguageId(filePath) == langMap(toLowerCase(extname(filePath)))

\* A plausible slip: the patterns are matched against the path as given.
isSensitiveFile_CaseSensitive(filePath) ==
    LET normalized == replaceBackslashes(filePath)
        fileName == basename(normalized)
        dirName == dirname(normalized)
    IN  \/ fileName = ".env" \/ startsWith(fileName, ".env.")
        \/ startsWith(fileName, "secrets") \/ includes(fileName, "secrets")
        \/ startsWith(fileName, "id_rsa")
        \/ endsWith(fileName, ".pfx") \/ endsWith(fileName, ".pem")
        \/ endsWith(fileName, ".key") \/ endsWith(fileName, ".p12")
        \/ startsWith(fileName, "credentials") \/ includes(fileName, "credentials")
        \/ includes(dirName, "secrets") \/ includes(dirName, "credentials")

isSensitiveFile(filePath) ==
    LET normalized == replaceBackslashes(toLowerCase(filePath))
        fileName == basename(normalized)
        dirName == dirname(normalized)
    IN  \/ fileName = ".env" \/ startsWith(fileName, ".env.")
        \/ startsWith(fileName, "secrets") \/ includes(fileName, "secrets")
        \/ startsWith(fileName, "id_rsa")
        \/ endsWith(fileName, ".pfx") \/ endsWith(fileName, ".pem")
        \/ endsWith(fileName, ".key") \/ endsWith(fileName, ".p12")
        \/ startsWith(fileName, "credentials") \/ includes(fileName, "credentials")
        \/ includes(dirName, "secrets") \/ includes(dirName, "credentials")

(***************************************************************************)
(* Classifier runs: isSensitiveFile applied to a path and to a re-spelling *)
(* of it (letter case, separator style).                                   *)
(***************************************************************************)
ClsPaths ==
    { ".env", ".env.local", ".envrc", "my.env", "src/.env", ".ENV", "src/.env.d/x.ts",
      "secrets.yaml", "config/secrets.yaml", "my_secrets.ts", "Secrets.txt", "secret.ts",
      "id_rsa", "id_rsa.pub", "my_id_rsa", "keys/ID_RSA",
      "cert.pem", "server.KEY", "store.p12", "a.pfx", "a/b/c.key", "key.ts", "a.pem.txt",
      ".pem", "pem",
      "credentials.json", "aws-credentials", "src/credentials/x.ts", "my-secrets-dir/x.ts",
      "config\\secrets\\a.ts", "SRC\\Credentials\\X.TS", "src\\app.ts", "src/app.ts",
      "README.md", "secrets/", "a//b.ts", "/", "" }

\* The same character in the other letter case, or the other path separator.
Respell(c) ==
    CASE c = "/" -> "\\"
      [] c = "\\" -> "/"
      [] LowerChar(c) # c -> LowerChar(c)
      [] OTHER -> UpperChar(c)

ClsRespell(i) ==
    /\ ~clsOut.done
    /\ clsFlips < MaxFlips
    /\ i \in 1..Len(clsVariant)
    /\ Respell(CharAt(clsVariant, i)) # CharAt(clsVariant, i)
    /\ clsVariant' = SubSeq(clsVariant, 1, i - 1) \o Respell(CharAt(clsVariant, i))
                        \o Suffix(clsVariant, i + 1)
    /\ clsFlips' = clsFlips + 1
    /\ UNCHANGED <<clsPath, clsOut, clsOthers>>

ClsClassify ==
    /\ ~clsOut.done
    /\ clsOut' = [done |-> TRUE,
                  path |-> isSensitiveFile(clsPath),
                  variant |-> isSensitiveFile(clsVariant)]
    /\ UNCHANGED <<clsPath, clsVariant, clsFlips, clsOthers>>

ClsInit ==
    /\ clsPath \in ClsPaths
    /\ clsVariant = clsPath
    /\ clsFlips = 0
    /\ clsOut = NotRun

ClsIdle ==
    /\ clsPath = ""
    /\ clsVariant = ""
    /\ clsFlips = 0
    /\ clsOut = NotRun

ClsNext ==
    \/ \E i \in 1..Len(clsVariant) : ClsRespell(i)
    \/ ClsClassify

(***************************************************************************)
(* Fingerprinter.                                                          *)
(***************************************************************************)
None == <<>>
Some(x) == <<x>>

\* A plausible slip: the sample is hashed along with the metadata.
EntryLine_WithSample(f) ==
    f.path \o "|" \o NumberToString(f.size) \o "|" \o NumberToString(f.mtime)
        \o "|" \o (IF f.sample = None THEN "undefined" ELSE f.sample[1])

\* `${f.path}|${f.size}|${f.mtime}`
EntryLine(f) == f.path \o "|" \o NumberToString(f.size) \o "|" \o NumberToString(f.mtime)

RECURSIVE InsertSorted(_, _)
InsertSorted(x, sorted) ==
    IF sorted = <<>> THEN <<x>>
    ELSE IF StringLess(Head(sorted), x) THEN <<Head(sorted)>> \o InsertSorted(x, Tail(sorted))
    ELSE <<x>> \o sorted

\* Array.prototype.sort() on strings.
RECURSIVE SortStrings(_)
SortStrings(lines) ==
    IF lines = <<>> THEN <<>> ELSE InsertSorted(Head(lines), SortStrings(Tail(lines)))

\* Array.prototype.join(sep)
RECURSIVE Join(_, _)
Join(lines, sep) ==
    IF lines = <<>> THEN ""
    ELSE IF Len(lines) = 1 THEN lines[1]
    ELSE lines[1] \o sep \o Join(Tail(lines), sep)

\* crypto.createHash('sha256').update(s).digest('hex'): the digest is kept as the
\* injective image of the hashed string (no collisions).
Sha256Hex(s) == <<"sha256", s>>

\* A plausible slip: the lines are joined in discovery order, without the sort.
FingerprintInput_Unsorted(files) ==
    Join([i \in 1..Len(files) |-> EntryLine(files[i])], "\n")

\* The string that computeFingerprint hashes.
FingerprintInput(files) ==
    Join(SortStrings([i \in 1..Len(files) |-> EntryLine(files[i])]), "\n")

computeFingerprint(files) == Sha256Hex(FingerprintInput(files))

(***************************************************************************)
(* Fingerprint runs: computeFingerprint applied to two FileInfo lists.     *)
(***************************************************************************)
FpTriples ==
    { <<"a", 1, 1>>, <<"a", 2, 1>>, <<"a", 1, 12>>, <<"b", 1, 1>>,
      <<"a|1", 1, 1>>, <<"a|1|1\nb", 1, 1>> }

FpRecords ==
    { [path |-> t[1], size |-> t[2], mtime |-> t[3],
       languageId |-> getLanguageId(t[1]), sample |-> None] : t \in FpTriples }

FpLists == UNION { [1..n -> FpRecords] : n \in 0..MaxFpLen }

FpExtras == { <<NoLanguage, None>>, <<"typescript", Some("x")>>, <<"markdown", Some("")>> }

Triple(f) == <<f.path, f.size, f.mtime>>

\* How many records of the list carry the triple t.
Count(files, t) == Cardinality({i \in 1..Len(files) : Triple(files[i]) = t})

SameTriples(x, y) ==
    /\ Len(x) = Len(y)
    /\ \A i \in 1..Len(x) : Count(x, Triple(x[i])) = Count(y, Triple(x[i]))

\* A second list that differs from the first only in languageId / sample values.
FpSetExtras(i, e) ==
    /\ ~fpOut.done
    /\ SameTriples(fpA, fpB)
    /\ i \in 1..Len(fpB)
    /\ fpB' = [fpB EXCEPT ![i].languageId = e[1], ![i].sample = e[2]]
    /\ fpB' # fpB
    /\ UNCHANGED <<fpA, fpOut, fpOthers>>

FpCompute ==
    /\ ~fpOut.done
    /\ fpOut' = [done |-> TRUE, a |-> computeFingerprint(fpA), b |-> computeFingerprint(fpB)]
    /\ UNCHANGED <<fpA, fpB, fpOthers>>

FpInit ==
    /\ fpA \in FpLists
    /\ fpB \in FpLists
    /\ fpOut = NotRun

FpIdle ==
    /\ fpA = <<>>
    /\ fpB = <<>>
    /\ fpOut = NotRun

FpNext ==
    \/ \E i \in 1..Len(fpB), e \in FpExtras : FpSetExtras(i, e)
    \/ FpCompute

(***************************************************************************)
(* The environment: workspace folders, settings, files on disk.            *)
(***************************************************************************)
FolderApp == [name |-> "app", fsPath |-> "/w/app", uri |-> "file:///w/app"]
FolderLib == [name |-> "lib", fsPath |-> "/w/lib", uri |-> "file:///w/lib"]
FolderSets == { <<>>, <<FolderApp>>, <<FolderLib>> }
CacheKeys == { FolderApp.uri, FolderLib.uri }

MaxFilesChoices == {1, 2}
MaxBytesChoices == {1, 2}
Configs == [maxFiles : MaxFilesChoices, maxBytesPerFile : MaxBytesChoices]

Missing == [exists |-> FALSE]
File(text, mtime, readable) ==
    [exists |-> TRUE, text |-> text, mtime |-> mtime, readable |-> readable]

\* Longer than ten times every maxBytesPerFile of the model.
BigText == "abcdefghijklmnopqrstuvwxyz0123456789"

SourceFile == "/w/app/src/a.ts"

InitialDisk ==
    [u \in { SourceFile, "/w/app/my_secrets.ts", "/w/app/logo.png", "/w/app/.env",
             "/w/lib/lib.py" } |->
        CASE u = SourceFile -> File("ab", 10, TRUE)
          [] u = "/w/app/my_secrets.ts" -> File("k", 7, TRUE)
          [] u = "/w/app/logo.png" -> File("png", 8, TRUE)
          [] u = "/w/app/.env" -> File("e", 9, TRUE)
          [] OTHER -> File("x", 5, TRUE)]

\* What an edit, a chmod or a delete can turn a file into.
Alternatives(u) ==
    IF u = SourceFile
    THEN { File("ab", 10, TRUE), File("", 11, TRUE), File("abc", 12, TRUE),
           File(BigText, 13, TRUE), File("ab", 10, FALSE), Missing }
    ELSE {}

Under(folder, u) == startsWith(u, folder.fsPath \o "/")

\* vscode.workspace.asRelativePath(uri): relative to the workspace folder that holds
\* the file, the full path when none does.
asRelativePath(u, folders) ==
    IF folders # <<>> /\ Under(folders[1], u)
    THEN Suffix(u, Len(folders[1].fsPath) + 2)
    ELSE u

RECURSIVE SplitPath(_, _, _)
SplitPath(s, cur, acc) ==
    LET flushed == IF cur = "" THEN acc ELSE Append(acc, cur)
    IN  IF s = "" THEN flushed
        ELSE IF CharAt(s, 1) = "/" THEN SplitPath(Suffix(s, 2), "", flushed)
        ELSE SplitPath(Suffix(s, 2), cur \o CharAt(s, 1), acc)

\* The exclude glob handed to findFiles: SENSITIVE_PATTERNS and the build,
\* dependency and version-control directories, matched segment by segment.
GlobExcluded(rel) ==
    LET segs == SplitPath(rel, "", <<>>)
    IN  \/ \E i \in 1..Len(segs) :
              \/ segs[i] = ".env"
              \/ startsWith(segs[i], ".env.")
              \/ startsWith(segs[i], "secrets")
              \/ startsWith(segs[i], "id_rsa")
              \/ endsWith(segs[i], ".pfx") \/ endsWith(segs[i], ".pem")
              \/ endsWith(segs[i], ".key") \/ endsWith(segs[i], ".p12")
              \/ startsWith(segs[i], "credentials")
        \/ \E i \in 1..(Len(segs) - 1) :
              segs[i] \in {"node_modules", ".git", "dist", "build", "out"}

\* Every path string the analyzer can meet: each file relative to its workspace
\* folder, and its full path. The classification of each is computed once.
KnownPaths ==
    (DOMAIN InitialDisk) \cup {asRelativePath(u, fs) : u \in DOMAIN InitialDisk, fs \in FolderSets}

PathFacts ==
    [p \in KnownPaths |->
        [sensitive |-> isSensitiveFile(p),
         excluded |-> GlobExcluded(p),
         ext |-> toLowerCase(extname(p)),
         languageId |-> getLanguageId(p)]]

\* vscode.workspace.findFiles('**/*', excludePattern, maxResults): up to maxResults
\* of the matching files, in no particular order.
FindFilesResults(folder, maxResults) ==
    LET matching == {u \in DOMAIN disk :
                        /\ disk[u].exists
                        /\ Under(folder, u)
                        /\ ~PathFacts[Suffix(u, Len(folder.fsPath) + 2)].excluded}
        n == Min(maxResults, Cardinality(matching))
    IN  {q \in [1..n -> matching] : \A i, j \in 1..n : i # j => q[i] # q[j]}

(***************************************************************************)
(* Workspace analyzer and analysis cache.                                  *)
(***************************************************************************)
NoEntry == [undefined |-> TRUE]
Null == [null |-> TRUE]
Pending == [pending |-> TRUE]
NoFileInfo == [none |-> TRUE]
NoFolder == [none |-> TRUE]
NoConfig == [none |-> TRUE]

NoRequest == [none |-> TRUE]

\* One analyzeWorkspace invocation; request is the QueryRequest its caller builds
\* from the Analysis it got. age records the order of events for a running
\* invocation: "beforeRebuild" once a rebuild of its folder has been requested after
\* it started, "superseded" once that rebuild has returned its Analysis, "current"
\* otherwise and after every clearing of the cache.
IdleTask ==
    [pc |-> "idle", caller |-> "", folder |-> NoFolder, cfg |-> NoConfig,
     files |-> <<>>, idx |-> 0, relativePath |-> "", fileInfos |-> <<>>,
     cur |-> NoFileInfo, result |-> Pending, hit |-> FALSE, request |-> NoRequest,
     age |-> "current"]

\* config.get<number>('maxFiles', 5000)
ConfiguredMaxFiles_WrongKey(cfg) == cfg.maxBytesPerFile

ConfiguredMaxFiles(cfg) == cfg.maxFiles

\* config.get<number>('maxBytesPerFile', 40000)
ConfiguredMaxBytesPerFile(cfg) == cfg.maxBytesPerFile

SampleCeilingFactor == 10

\* files.slice(0, maxFiles)
LoopFiles(tk) == SubSeq(tk.files, 1, Min(ConfiguredMaxFiles(tk.cfg), Len(tk.files)))

\* if (isSensitiveFile(relativePath)) continue;
SkipsFile_Never(relativePath) == FALSE

SkipsFile(relativePath) == PathFacts[relativePath].sensitive

\* The condition under which a file's content is read.
SamplesFile_NoCeiling(ext, size, maxBytesPerFile) ==
    ext \in TEXT_FILE_EXTENSIONS /\ size > 0

SamplesFile(ext, size, maxBytesPerFile) ==
    /\ ext \in TEXT_FILE_EXTENSIONS
    /\ size > 0
    /\ size <= maxBytesPerFile * SampleCeilingFactor

\* text.length > maxBytesPerFile ? text.substring(0, maxBytesPerFile) : text
SampleOf_OffByOne(text, maxBytesPerFile) ==
    IF Len(text) > maxBytesPerFile THEN Prefix(text, maxBytesPerFile + 1) ELSE text

SampleOf(text, maxBytesPerFile) ==
    IF Len(text) > maxBytesPerFile THEN Prefix(text, maxBytesPerFile) ELSE text

\* Lines 243-257 with the cache key taken from the folder open at the end.
Finished_KeyOfCurrentFolder(tk, cache) ==
    LET analysis == [workspaceName |-> tk.folder.name,
                     workspaceRoot |-> tk.folder.fsPath,
                     fingerprint |-> computeFingerprint(tk.fileInfos),
                     fileCount |-> Len(tk.fileInfos),
                     files |-> tk.fileInfos]
        cacheKey == IF workspaceFolders = <<>> THEN tk.folder.uri ELSE workspaceFolders[1].uri
    IN  [task |-> [tk EXCEPT !.pc = "done", !.files = <<>>, !.idx = 0, !.relativePath = "",
                             !.cur = NoFileInfo, !.result = analysis],
         cache |-> [cache EXCEPT ![cacheKey] = analysis]]

\* Lines 243-257 with a store that keeps an entry already present.
Finished_FirstWriteWins(tk, cache) ==
    LET analysis == [workspaceName |-> tk.folder.name,
                     workspaceRoot |-> tk.folder.fsPath,
                     fingerprint |-> computeFingerprint(tk.fileInfos),
                     fileCount |-> Len(tk.fileInfos),
                     files |-> tk.fileInfos]
    IN  [task |-> [tk EXCEPT !.pc = "done", !.files = <<>>, !.idx = 0, !.relativePath = "",
                             !.cur = NoFileInfo, !.result = analysis],
         cache |-> IF cache[tk.folder.uri] = NoEntry
                   THEN [cache EXCEPT ![tk.folder.uri] = analysis]
                   ELSE cache]

\* Lines 243-257: fingerprint, snapshot, analysisCache.set, return.
Finished(tk, cache) ==
    LET analysis == [workspaceName |-> tk.folder.name,
                     workspaceRoot |-> tk.folder.fsPath,
                     fingerprint |-> computeFingerprint(tk.fileInfos),
                     fileCount |-> Len(tk.fileInfos),
                     files |-> tk.fileInfos]
    IN  [task |-> [tk EXCEPT !.pc = "done", !.files = <<>>, !.idx = 0, !.relativePath = "",
                             !.cur = NoFileInfo, !.result = analysis],
         cache |-> [cache EXCEPT ![tk.folder.uri] = analysis]]

\* The loop from candidate `from` on, up to its next await: sensitive candidates are
\* passed over; the first other one is stat'ed; after the last one the analysis is
\* assembled and stored.
Continued(tk, from, cache) ==
    LET loop == LoopFiles(tk)
        rel(j) == asRelativePath(loop[j], workspaceFolders)
        rest == {j \in from..Len(loop) : ~SkipsFile(rel(j))}
        next == CHOOSE j \in rest : \A k \in rest : j <= k
    IN  IF rest = {} THEN Finished(tk, cache)
        ELSE [task |-> [tk EXCEPT !.pc = "stat", !.idx = next, !.relativePath = rel(next),
                                  !.cur = NoFileInfo],
              cache |-> cache]

\* analyzeWorkspace without the cache lookup of lines 175-180.
Started_NoCacheLookup(caller, cache) ==
    IF workspaceFolders = <<>>
    THEN [IdleTask EXCEPT !.pc = "done", !.caller = caller, !.result = Null]
    ELSE [IdleTask EXCEPT !.pc = "findFiles", !.caller = caller,
                          !.folder = workspaceFolders[1], !.cfg = config]

\* analyzeWorkspace up to its first await (lines 168-196).
Started(caller, cache) ==
    IF workspaceFolders = <<>>
    THEN [IdleTask EXCEPT !.pc = "done", !.caller = caller, !.result = Null]
    ELSE LET workspaceFolder == workspaceFolders[1]
             cached == cache[workspaceFolder.uri]
         IN  IF cached # NoEntry
             THEN [IdleTask EXCEPT !.pc = "done", !.caller = caller,
                                   !.folder = workspaceFolder, !.result = cached,
                                   !.hit = TRUE]
             ELSE [IdleTask EXCEPT !.pc = "findFiles", !.caller = caller,
                                   !.folder = workspaceFolder, !.cfg = config]

\* The invocations after invocation t has come to tk: when tk is the Analysis a
\* rebuild returns, the running invocations that are older than the rebuild request
\* are superseded.
Settled_Tasks(t, tk) ==
    [u \in 1..MaxTasks |->
        IF u = t THEN tk
        ELSE IF /\ tk.pc = "done" /\ tk.caller = "rebuild"
                /\ tk.result \notin {Null, Pending}
                /\ task[u].pc \in {"findFiles", "stat", "read"}
                /\ task[u].folder = tk.folder
                /\ task[u].age = "beforeRebuild"
             THEN [task[u] EXCEPT !.age = "superseded"]
             ELSE task[u]]

\* The invocations after a rebuild of the folder with this key has started as tk in
\* slot t: the running invocations of that folder are older than the request.
Rebuild_Tasks(t, tk, cacheKey) ==
    [u \in 1..MaxTasks |->
        IF u = t THEN tk
        ELSE IF /\ task[u].pc \in {"findFiles", "stat", "read"}
                /\ task[u].folder.uri = cacheKey
             THEN [task[u] EXCEPT !.age = "beforeRebuild"]
             ELSE task[u]]

\* The invocations after the whole cache has been cleared.
Cleared_Tasks == [u \in 1..MaxTasks |-> [task[u] EXCEPT !.age = "current"]]

\* A new invocation takes the first free slot.
FreeSlot(t) ==
    /\ task[t].pc = "idle"
    /\ \A u \in 1..MaxTasks : u < t => task[u].pc # "idle"

\* activate(): registers the handlers and starts the pre-analysis.
Activate(t) ==
    /\ active = "loaded"
    /\ FreeSlot(t)
    /\ active' = "active"
    /\ task' = [task EXCEPT ![t] = Started("activate", analysisCache)]
    /\ UNCHANGED <<envVars, analysisCache, anaOthers>>

\* deactivate()
Deactivate ==
    /\ active = "active"
    /\ active' = "deactivated"
    /\ analysisCache' = [k \in CacheKeys |-> NoEntry]
    /\ task' = Cleared_Tasks
    /\ UNCHANGED <<envVars, anaOthers>>

\* handleChatRequest / WebviewProvider._handleQuery: analysis = await analyzeWorkspace()
AnalyzeCall(t) ==
    /\ active = "active"
    /\ FreeSlot(t)
    /\ task' = [task EXCEPT ![t] = Started("query", analysisCache)]
    /\ UNCHANGED <<active, envVars, analysisCache, anaOthers>>

\* RebuildAnalysis with the cache lookup of analyzeWorkspace made on the cache as it
\* was before the delete.
RebuildAnalysis_LookupBeforeDelete(t) ==
    /\ active = "active"
    /\ FreeSlot(t)
    /\ IF workspaceFolders = <<>>
       THEN UNCHANGED <<analysisCache, task>>
       ELSE /\ analysisCache' = [analysisCache EXCEPT ![workspaceFolders[1].uri] = NoEntry]
            /\ task' = Rebuild_Tasks(t, Started("rebuild", analysisCache),
                                     workspaceFolders[1].uri)
    /\ UNCHANGED <<active, envVars, anaOthers>>

\* rebuildAnalysis(): without a workspace folder a warning is shown and nothing changes.
RebuildAnalysis(t) ==
    /\ active = "active"
    /\ FreeSlot(t)
    /\ IF workspaceFolders = <<>>
       THEN UNCHANGED <<analysisCache, task>>
       ELSE LET deleted == [analysisCache EXCEPT ![workspaceFolders[1].uri] = NoEntry]
            IN  /\ analysisCache' = deleted
                /\ task' = Rebuild_Tasks(t, Started("rebuild", deleted),
                                         workspaceFolders[1].uri)
    /\ UNCHANGED <<active, envVars, anaOthers>>

\* await findFiles(...) resolves; the loop runs up to its first stat.
FindFilesResolve(t) ==
    /\ task[t].pc = "findFiles"
    /\ \E files \in FindFilesResults(task[t].folder, ConfiguredMaxFiles(task[t].cfg)) :
          LET r == Continued([task[t] EXCEPT !.files = files], 1, analysisCache)
          IN  /\ task' = Settled_Tasks(t, r.task)
              /\ analysisCache' = r.cache
    /\ UNCHANGED <<active, envVars, anaOthers>>

\* FindFilesReject with an empty Analysis stored for the folder on the way out.
FindFilesReject_StoresEmpty(t) ==
    /\ task[t].pc = "findFiles"
    /\ LET r == Finished(task[t], analysisCache)
       IN  /\ task' = [task EXCEPT ![t].pc = "done", ![t].result = Null]
           /\ analysisCache' = r.cache
    /\ UNCHANGED <<active, envVars, anaOthers>>

\* await findFiles(...) rejects: the outer catch returns null.
FindFilesReject(t) ==
    /\ task[t].pc = "findFiles"
    /\ task' = [task EXCEPT ![t].pc = "done", ![t].result = Null]
    /\ UNCHANGED <<active, envVars, analysisCache, anaOthers>>

\* StatSettle with the rejection of fs.stat left to the outer catch.
StatSettle_RejectionAborts(t) ==
    /\ task[t].pc = "stat"
    /\ LET tk == task[t]
           f == disk[LoopFiles(tk)[tk.idx]]
           maxBytesPerFile == ConfiguredMaxBytesPerFile(tk.cfg)
           ext == PathFacts[tk.relativePath].ext
           fileInfo == [path |-> tk.relativePath, size |-> Len(f.text), mtime |-> f.mtime,
                        languageId |-> PathFacts[tk.relativePath].languageId,
                        sample |-> None]
           r == IF ~f.exists
                THEN [task |-> [tk EXCEPT !.pc = "done", !.result = Null],
                      cache |-> analysisCache]
                ELSE IF SamplesFile(ext, Len(f.text), maxBytesPerFile)
                THEN [task |-> [tk EXCEPT !.pc = "read", !.cur = fileInfo],
                      cache |-> analysisCache]
                ELSE Continued([tk EXCEPT !.fileInfos = Append(@, fileInfo)],
                               tk.idx + 1, analysisCache)
       IN  /\ task' = Settled_Tasks(t, r.task)
           /\ analysisCache' = r.cache
    /\ UNCHANGED <<active, envVars, anaOthers>>

\* await fs.stat(fileUri) settles: a rejection drops the file; otherwise the record
\* is built and either awaits the read of its content or is pushed.
StatSettle(t) ==
    /\ task[t].pc = "stat"
    /\ LET tk == task[t]
           f == disk[LoopFiles(tk)[tk.idx]]
           maxBytesPerFile == ConfiguredMaxBytesPerFile(tk.cfg)
           ext == PathFacts[tk.relativePath].ext
           fileInfo == [path |-> tk.relativePath, size |-> Len(f.text), mtime |-> f.mtime,
                        languageId |-> PathFacts[tk.relativePath].languageId,
                        sample |-> None]
           r == IF ~f.exists THEN Continued(tk, tk.idx + 1, analysisCache)
                ELSE IF SamplesFile(ext, Len(f.text), maxBytesPerFile)
                THEN [task |-> [tk EXCEPT !.pc = "read", !.cur = fileInfo],
                      cache |-> analysisCache]
                ELSE Continued([tk EXCEPT !.fileInfos = Append(@, fileInfo)],
                               tk.idx + 1, analysisCache)
       IN  /\ task' = Settled_Tasks(t, r.task)
           /\ analysisCache' = r.cache
    /\ UNCHANGED <<active, envVars, anaOthers>>

\* await fs.readFile(fileUri) settles: a rejection keeps the record without a sample.
ReadSettle(t) ==
    /\ task[t].pc = "read"
    /\ LET tk == task[t]
           f == disk[LoopFiles(tk)[tk.idx]]
           maxBytesPerFile == ConfiguredMaxBytesPerFile(tk.cfg)
           fileInfo == IF f.exists /\ f.readable
                       THEN [tk.cur EXCEPT !.sample = Some(SampleOf(f.text, maxBytesPerFile))]
                       ELSE tk.cur
           r == Continued([tk EXCEPT !.fileInfos = Append(@, fileInfo)],
                          tk.idx + 1, analysisCache)
       IN  /\ task' = Settled_Tasks(t, r.task)
           /\ analysisCache' = r.cache
    /\ UNCHANGED <<active, envVars, anaOthers>>

\* What getActiveEditorContext() gives for the file of the active editor.
ActiveFileChoices == {None, Some("src/a.ts")}

\* const request: QueryRequest = {query, repo_context: {...}}
QueryRequest_CountsCandidates(prompt, analysis, activeFile, selection) ==
    [query |-> prompt,
     repo_context |-> [workspaceName |-> analysis.workspaceName,
                       workspaceRoot |-> analysis.workspaceRoot,
                       fingerprint |-> analysis.fingerprint,
                       fileCount |-> analysis.fileCount + 1,
                       activeFile |-> activeFile,
                       selection |-> selection,
                       files |-> analysis.files]]

QueryRequest(prompt, analysis, activeFile, selection) ==
    [query |-> prompt,
     repo_context |-> [workspaceName |-> analysis.workspaceName,
                       workspaceRoot |-> analysis.workspaceRoot,
                       fingerprint |-> analysis.fingerprint,
                       fileCount |-> analysis.fileCount,
                       activeFile |-> activeFile,
                       selection |-> selection,
                       files |-> analysis.files]]

\* The query handler has its Analysis and calls sendQuery, which builds the request.
BuildRequest(t) ==
    /\ task[t].pc = "done"
    /\ task[t].caller = "query"
    /\ task[t].result # Null
    /\ \E activeFile \in ActiveFileChoices :
          task' = [task EXCEPT ![t].pc = "sent",
                               ![t].request = QueryRequest("q", task[t].result,
                                                           activeFile, None)]
    /\ UNCHANGED <<active, envVars, analysisCache, anaOthers>>

\* The caller has received the value analyzeWorkspace returned and is through with it.
Release(t) ==
    /\ task[t].pc \in {"done", "sent"}
    /\ task' = [task EXCEPT ![t] = IdleTask]
    /\ UNCHANGED <<active, envVars, analysisCache, anaOthers>>

\* onDidChangeWorkspaceFolders: the listener registered by activate clears the cache.
WorkspaceFoldersChanged(folders) ==
    /\ envChanges < MaxEnvChanges
    /\ folders \in FolderSets \ {workspaceFolders}
    /\ workspaceFolders' = folders
    /\ envChanges' = envChanges + 1
    /\ analysisCache' = IF active = "active" THEN [k \in CacheKeys |-> NoEntry]
                        ELSE analysisCache
    /\ task' = IF active = "active" THEN Cleared_Tasks ELSE task
    /\ UNCHANGED <<active, config, disk, anaOthers>>

\* config.update(key, value) of WebviewProvider._handleUpdateSettings, or the user
\* editing the settings.
ConfigUpdate(cfg) ==
    /\ envChanges < MaxEnvChanges
    /\ cfg \in Configs
    /\ \/ cfg.maxFiles = config.maxFiles /\ cfg.maxBytesPerFile # config.maxBytesPerFile
       \/ cfg.maxFiles # config.maxFiles /\ cfg.maxBytesPerFile = config.maxBytesPerFile
    /\ config' = cfg
    /\ envChanges' = envChanges + 1
    /\ UNCHANGED <<active, workspaceFolders, disk, analysisCache, task, anaOthers>>

\* A file of the workspace is edited, locked, deleted or restored.
FileChanged(u, f) ==
    /\ envChanges < MaxEnvChanges
    /\ f \in Alternatives(u) \ {disk[u]}
    /\ disk' = [disk EXCEPT ![u] = f]
    /\ envChanges' = envChanges + 1
    /\ UNCHANGED <<active, workspaceFolders, config, analysisCache, task, anaOthers>>

AnaInit ==
    /\ active = "loaded"
    /\ workspaceFolders \in { <<>>, <<FolderApp>> }
    /\ config \in Configs
    /\ disk = InitialDisk
    /\ envChanges = 0
    /\ analysisCache = [k \in CacheKeys |-> NoEntry]
    /\ task = [t \in 1..MaxTasks |-> IdleTask]

AnaIdle ==
    /\ active = "loaded"
    /\ workspaceFolders = <<>>
    /\ config = [maxFiles |-> 2, maxBytesPerFile |-> 2]
    /\ disk = InitialDisk
    /\ envChanges = 0
    /\ analysisCache = [k \in CacheKeys |-> NoEntry]
    /\ task = [t \in 1..MaxTasks |-> IdleTask]

AnaNext ==
    \/ \E t \in 1..MaxTasks : Activate(t)
    \/ Deactivate
    \/ \E t \in 1..MaxTasks : AnalyzeCall(t)
    \/ \E t \in 1..MaxTasks : RebuildAnalysis(t)
    \/ \E t \in 1..MaxTasks : FindFilesResolve(t)
    \/ \E t \in 1..MaxTasks : FindFilesReject(t)
    \/ \E t \in 1..MaxTasks : StatSettle(t)
    \/ \E t \in 1..MaxTasks : ReadSettle(t)
    \/ \E t \in 1..MaxTasks : BuildRequest(t)
    \/ \E t \in 1..MaxTasks : Release(t)
    \/ \E folders \in FolderSets : WorkspaceFoldersChanged(folders)
    \/ \E cfg \in Configs : ConfigUpdate(cfg)
    \/ \E u \in DOMAIN disk : \E f \in Alternatives(u) : FileChanged(u, f)

(***************************************************************************)
(* Query client: sendQuery.                                                *)
(***************************************************************************)
\* Values of aiCodeSnippetRag.serverUrl and aiCodeSnippetRag.requestTimeoutMs: the
\* defaults, and another backend with another timeout.
QueryConfigs ==
    { [serverUrl |-> "http://localhost:8000", requestTimeoutMs |-> 20000],
      [serverUrl |-> "http://rag:9", requestTimeoutMs |-> 4040] }

\* Error objects: name, message and code (None where the object has no string code).
Error(message) == [name |-> "Error", message |-> message, code |-> None]

\* What fetch rejects with when the signal of its AbortController is aborted.
AbortError == [name |-> "AbortError", message |-> "This operation was aborted", code |-> None]

\* What fetch, response.json() and response.text() can reject with otherwise.
FetchFailed == [name |-> "TypeError", message |-> "fetch failed", code |-> None]

ConnectionRefused ==
    [name |-> "FetchError", message |-> "connect ECONNREFUSED", code |-> Some("ECONNREFUSED")]

NameNotFound ==
    [name |-> "FetchError", message |-> "getaddrinfo ENOTFOUND", code |-> Some("ENOTFOUND")]

InvalidUrl == [name |-> "TypeError", message |-> "Invalid URL", code |-> None]

Terminated == [name |-> "TypeError", message |-> "terminated", code |-> None]

JsonSyntaxError == [name |-> "SyntaxError", message |-> "Unexpected end of JSON input", code |-> None]

\* The SyntaxError of JSON.parse for the body 'upstream fetch failed': the message
\* quotes the body.
UnexpectedToken ==
    [name |-> "SyntaxError",
     message |-> "Unexpected token 'u', \"upstream fetch failed\" is not valid JSON",
     code |-> None]

FetchRejections == {FetchFailed, ConnectionRefused, NameNotFound, InvalidUrl}

\* Answers of the backend: a status and a body.
StatusChoices == {200, 404, 500}

BodyChoices == {"{\"detail\":\"Not Found\"}", "", "Not Found", "upstream fetch failed"}

IsOk(status) == status >= 200 /\ status <= 299

\* What the caller hands to sendQuery: the summary of the Analysis that its messages
\* use, and editorContext.file (None for null).
QueryContexts ==
    { [workspaceName |-> "app", fileCount |-> 0, withSamples |-> 0, activeFile |-> None],
      [workspaceName |-> "app", fileCount |-> 2, withSamples |-> 1,
       activeFile |-> Some("src/a.ts")] }

QueryCallers == {"chat", "webview"}

\* JavaScript values a parsed body can hold where an answer list or a number is expected.
Undefined == [js |-> "undefined"]

JsNull == [js |-> "null"]

JsObject == [js |-> "object"]

JsArray(items) == [js |-> "array", items |-> items]

\* A parsed body that is falsy without being null (0, false or ""); reading a
\* property of it gives undefined.
JsFalsy == [js |-> "falsy", answers |-> Undefined]

\* A number with two decimals, held in hundredths.
JsNumber(hundredths) == [js |-> "number", hundredths |-> hundredths]

Answer(file, start_line, end_line, code, score, explanation) ==
    [file |-> file, start_line |-> start_line, end_line |-> end_line, code |-> code,
     score |-> score, explanation |-> explanation]

\* Answers a backend can send.
WellFormedAnswers ==
    { Answer("a.ts", 1, 2, "x", JsNumber(87), "why"),
      Answer("b.py", 10, 12, "y", JsNumber(100), ""),
      Answer("c", 3, 3, "z", JsNumber(5), "e"),
      Answer("a.ts", 20, 21, "x2", JsNumber(250), "") }

\* An answer that lacks its score.
MalformedAnswers == { Answer("d.go", 7, 9, "w", Undefined, "") }

\* The values response.json() can resolve with that are not an object with a
\* list of answers: the body null, and answers absent, null or an object.
Shapeless == {JsNull} \cup { [answers |-> a] : a \in {Undefined, JsNull, JsObject} }

\* What response.json() resolves with: the parsed body.
ResponseData ==
    Shapeless \cup {JsFalsy} \cup
        { [answers |-> JsArray(l)] :
            l \in { <<>>,
                    <<Answer("a.ts", 1, 2, "x", JsNumber(87), "why")>>,
                    <<Answer("a.ts", 1, 2, "x", JsNumber(87), "why"),
                      Answer("d.go", 7, 9, "w", Undefined, "")>> } }

TypeError(message) == [name |-> "TypeError", message |-> message, code |-> None]

\* One sendQuery invocation. timer is the state of the setTimeout handle, aborted
\* is controller.signal.aborted, overdue tells that timeoutMs have gone by since the
\* call while it was pending, errorText is the body text of a non-ok response once
\* read, and caught is the error the catch block received. Of the handler that
\* makes the call: messages counts the messages it has rendered (response.markdown,
\* or an assistant entry of the conversation history), loading is the queryLoading
\* state last sent to the webview, hasAnalysis tells that analyzeWorkspace gave it
\* an Analysis.
IdleQuery ==
    [pc |-> "idle", caller |-> "", hasAnalysis |-> FALSE,
     serverUrl |-> "", timeoutMs |-> 0, fileCount |-> 0,
     workspaceName |-> "", withSamples |-> 0, activeFile |-> None,
     timer |-> "none", aborted |-> FALSE, overdue |-> FALSE, status |-> 0, errorText |-> None,
     caught |-> None, outcome |-> Null, rendered |-> None, messages |-> 0,
     loading |-> FALSE]

Returned(data) == [kind |-> "return", data |-> data]

Thrown(error) == [kind |-> "throw", error |-> error]

\* The catch block of sendQuery without its AbortError test.
CatchQueryError_NoAbortTest(error, timeoutMs, serverUrl) ==
    IF \/ includes(error.message, "fetch failed")
       \/ error.code = Some("ECONNREFUSED")
       \/ error.code = Some("ENOTFOUND")
    THEN Error("Cannot connect to backend at " \o serverUrl
               \o ". Make sure the backend is running. Use \"AI Code Snippet RAG: Test Connection\" to verify.")
    ELSE error

\* The catch block of sendQuery: the error it throws for the error it caught.
CatchQueryError(error, timeoutMs, serverUrl) ==
    IF error.name = "AbortError"
    THEN Error("Request timeout after " \o NumberToString(timeoutMs) \o "ms")
    ELSE IF \/ includes(error.message, "fetch failed")
            \/ error.code = Some("ECONNREFUSED")
            \/ error.code = Some("ENOTFOUND")
         THEN Error("Cannot connect to backend at " \o serverUrl
                    \o ". Make sure the backend is running. Use \"AI Code Snippet RAG: Test Connection\" to verify.")
         ELSE error

\* The else branch without its 404 case.
HttpError_No404Case(status, errorText, fileCount) ==
    Error("HTTP " \o NumberToString(status) \o ": " \o errorText)

\* The error the else branch throws for a non-ok response.
HttpError(status, errorText, fileCount) ==
    IF status = 404
    THEN Error("HTTP 404: Backend endpoint /query not found. The endpoint needs to be implemented in the backend. Context collected: "
               \o NumberToString(fileCount) \o " files.")
    ELSE Error("HTTP " \o NumberToString(status) \o ": " \o errorText)

\* The invocation settles by throwing what the catch block makes of error.
Caught(q, error) ==
    [q EXCEPT !.pc = "settled",
              !.caught = Some(error),
              !.outcome = Thrown(CatchQueryError(error, q.timeoutMs, q.serverUrl))]

\* The handler is called and analyzeWorkspace returns an Analysis: sendQuery up to
\* its await of fetch reads the settings and arms the timer. The webview handler
\* has sent queryLoading = true before.
SendQueryCall(i) ==
    /\ query[i].pc = "idle"
    /\ \E caller \in QueryCallers, context \in QueryContexts :
          query' = [query EXCEPT ![i] =
                        [IdleQuery EXCEPT !.pc = "fetch",
                                          !.caller = caller,
                                          !.hasAnalysis = TRUE,
                                          !.serverUrl = queryConfig.serverUrl,
                                          !.timeoutMs = queryConfig.requestTimeoutMs,
                                          !.fileCount = context.fileCount,
                                          !.workspaceName = context.workspaceName,
                                          !.withSamples = context.withSamples,
                                          !.activeFile = context.activeFile,
                                          !.timer = "armed",
                                          !.loading = (caller = "webview")]]
    /\ UNCHANGED <<queryConfig, qryOthers>>

\* fetch resolves with the response: clearTimeout, then the await of the body.
FetchResolve(i) ==
    /\ query[i].pc = "fetch"
    /\ \E status \in StatusChoices :
          query' = [query EXCEPT ![i].timer = "cleared",
                                 ![i].status = status,
                                 ![i].pc = IF IsOk(status) THEN "json" ELSE "text"]
    /\ UNCHANGED <<queryConfig, qryOthers>>

\* fetch rejects for a reason of its own; the timer stays armed.
FetchReject(i) ==
    /\ query[i].pc = "fetch"
    /\ \E error \in FetchRejections :
          query' = [query EXCEPT ![i] = Caught(query[i], error)]
    /\ UNCHANGED <<queryConfig, qryOthers>>

\* TimerFires with one AbortController shared by every call.
TimerFires_SharedController(i) ==
    /\ query[i].timer = "armed"
    /\ query' = [j \in DOMAIN query |->
                    LET q == IF j = i
                             THEN [query[j] EXCEPT !.timer = "fired", !.aborted = TRUE]
                             ELSE [query[j] EXCEPT !.aborted = (query[j].pc # "idle")]
                    IN  IF q.pc = "fetch" THEN Caught(q, AbortError) ELSE q]
    /\ UNCHANGED <<queryConfig, qryOthers>>

\* The timer fires: controller.abort(). A pending fetch rejects with AbortError.
TimerFires(i) ==
    /\ query[i].timer = "armed"
    /\ LET q == [query[i] EXCEPT !.timer = "fired", !.aborted = TRUE]
       IN  query' = [query EXCEPT ![i] =
                        IF q.pc = "fetch" THEN Caught(q, AbortError) ELSE q]
    /\ UNCHANGED <<queryConfig, qryOthers>>

\* timeoutMs after the call the body is still being read: the timer was cleared when
\* fetch resolved (line 347), so nothing happens to the call.
DeadlinePasses(i) ==
    /\ query[i].pc \in {"json", "text"}
    /\ query[i].timer = "cleared"
    /\ ~query[i].overdue
    /\ query' = [query EXCEPT ![i].overdue = TRUE]
    /\ UNCHANGED <<queryConfig, qryOthers>>

\* response.json() settles: with the parsed body, whose answers are counted for the
\* log line before it is returned, or with a rejection.
JsonSettle(i) ==
    /\ query[i].pc = "json"
    /\ \/ \E data \in ResponseData :
             query' = [query EXCEPT ![i] =
                          IF data = JsNull
                          THEN Caught(query[i],
                                      TypeError("Cannot read properties of null (reading 'answers')"))
                          ELSE [query[i] EXCEPT !.pc = "settled", !.outcome = Returned(data)]]
       \/ \E error \in {JsonSyntaxError, UnexpectedToken} :
             query' = [query EXCEPT ![i] = Caught(query[i], error)]
       \/ query' = [query EXCEPT ![i] = Caught(query[i], Terminated)]
    /\ UNCHANGED <<queryConfig, qryOthers>>

\* response.text() settles.
TextSettle(i) ==
    /\ query[i].pc = "text"
    /\ \/ \E errorText \in BodyChoices :
             query' = [query EXCEPT ![i] =
                          Caught([query[i] EXCEPT !.errorText = Some(errorText)],
                                 HttpError(query[i].status, errorText, query[i].fileCount))]
       \/ query' = [query EXCEPT ![i] = Caught(query[i], Terminated)]
    /\ UNCHANGED <<queryConfig, qryOthers>>

\* Number.prototype.toFixed(2) of a number held in hundredths.
toFixed2(n) ==
    NumberToString(n.hundredths \div 100) \o "."
        \o CharAt(Digits, ((n.hundredths % 100) \div 10) + 1)
        \o CharAt(Digits, (n.hundredths % 10) + 1)

\* The character ` and the code fence made of three of them.
Backtick == SubSeq("`'", 1, 1)

Fence == Backtick \o Backtick \o Backtick

\* getLanguageId(answer.file) || 'text'
FenceLanguage(file) ==
    LET languageId == getLanguageId(file)
    IN  IF languageId = NoLanguage THEN "text" ELSE languageId

\* The loop without its test of answer.explanation.
RenderAnswer_AlwaysExplains(answer) ==
    "**" \o answer.file \o "** (lines " \o NumberToString(answer.start_line) \o "-"
        \o NumberToString(answer.end_line) \o ") [score: " \o toFixed2(answer.score) \o "]\n\n"
        \o Fence \o FenceLanguage(answer.file) \o "\n" \o answer.code \o "\n" \o Fence \o "\n\n"
        \o answer.explanation \o "\n\n"
        \o "---\n\n"

\* The text one pass of the for loop appends for a well-formed answer.
RenderAnswer(answer) ==
    "**" \o answer.file \o "** (lines " \o NumberToString(answer.start_line) \o "-"
        \o NumberToString(answer.end_line) \o ") [score: " \o toFixed2(answer.score) \o "]\n\n"
        \o Fence \o FenceLanguage(answer.file) \o "\n" \o answer.code \o "\n" \o Fence \o "\n\n"
        \o (IF answer.explanation # "" THEN answer.explanation \o "\n\n" ELSE "")
        \o "---\n\n"

\* The for loop of renderResponse from answer k on: answer.score.toFixed throws for
\* an answer without a score.
RECURSIVE RenderFrom(_, _, _)
RenderFrom(answers, k, markdown) ==
    IF k > Len(answers) THEN Returned(markdown)
    ELSE IF answers[k].score = Undefined
         THEN Thrown(TypeError("Cannot read properties of undefined (reading 'toFixed')"))
         ELSE RenderFrom(answers, k + 1, markdown \o RenderAnswer(answers[k]))

\* renderResponse: the markdown it returns or the error it throws.
renderResponse(response) ==
    LET answers == response.answers
    IN  IF \/ answers \in {Undefined, JsNull}
           \/ answers.js = "array" /\ Len(answers.items) = 0
        THEN Returned("No results found.")
        ELSE IF answers.js # "array"
             THEN Thrown(TypeError("response.answers is not iterable"))
             ELSE RenderFrom(answers.items, 1, "")

\* The catch block of handleChatRequest: the message it hands to response.markdown.
\* analysis is set whenever sendQuery was called.
ChatErrorMessage(error, q) ==
    "**Error:** " \o error.message
        \o "\n\n**Workspace Context Collected:**\n"
        \o "- **Files analyzed:** " \o NumberToString(q.fileCount) \o "\n"
        \o "- **Workspace:** " \o q.workspaceName \o "\n"
        \o "- **Files with samples:** " \o NumberToString(q.withSamples) \o "\n"
        \o (IF q.activeFile # None THEN "- **Active file:** " \o q.activeFile[1] \o "\n" ELSE "")
        \o "\n*All file metadata and samples were collected and would be sent to the backend.*"
        \o (IF includes(error.message, "Cannot connect to backend") \/ includes(error.message, "404")
            THEN "\n\n**Note:** The backend " \o Backtick \o "/query" \o Backtick
                 \o " endpoint is not yet implemented (404 error)."
                 \o "\nThe extension has successfully collected " \o NumberToString(q.fileCount)
                 \o " files from your workspace."
                 \o "\nOnce the backend implements the " \o Backtick \o "/query" \o Backtick
                 \o " endpoint, this context will be sent automatically."
            ELSE IF includes(error.message, "Cannot connect to backend")
            THEN "\n\n**Troubleshooting:**\n1. Ensure your backend is running: "
                 \o Backtick \o "docker compose up" \o Backtick
                 \o "\n2. Test connection: Run \"AI Code Snippet RAG: Test Connection\" command"
                 \o "\n3. Check backend URL in settings (default: http://localhost:8000)"
            ELSE "")
        \o "\n\nPlease check the Output panel (AI Code Snippet RAG) for detailed logs."

\* What the caller of a settled sendQuery has in hand after renderResponse: the
\* markdown, or the error that sendQuery or renderResponse threw.
Rendering(q) ==
    IF q.outcome.kind = "return" THEN renderResponse(q.outcome.data) ELSE q.outcome

\* The catch block of WebviewProvider._handleQuery.
WebviewErrorMessage(error) == "**Error:** " \o error.message

\* The handler renders text as its one message and ends; the finally block of the
\* webview handler sends queryLoading = false.
Responded(q, text) ==
    [q EXCEPT !.pc = "responded", !.rendered = Some(text), !.messages = @ + 1,
              !.loading = FALSE]

NoAnalysisMessage == "Could not analyze workspace. Please ensure a workspace is open."

NoResponseMessage == "No response from backend. Please check the connection and try again."

\* HandleWithoutAnalysis without the test of analysis: sendQuery is called with null.
HandleWithoutAnalysis_SendsAnyway(i) ==
    /\ query[i].pc = "idle"
    /\ \E caller \in QueryCallers :
          query' = [query EXCEPT ![i] =
                        [IdleQuery EXCEPT !.pc = "fetch",
                                          !.caller = caller,
                                          !.serverUrl = queryConfig.serverUrl,
                                          !.timeoutMs = queryConfig.requestTimeoutMs,
                                          !.timer = "armed",
                                          !.loading = (caller = "webview")]]
    /\ UNCHANGED <<queryConfig, qryOthers>>

\* The handler is called and analyzeWorkspace returns null: sendQuery is not called.
HandleWithoutAnalysis(i) ==
    /\ query[i].pc = "idle"
    /\ \E caller \in QueryCallers :
          query' = [query EXCEPT ![i] =
                        Responded([query[i] EXCEPT !.caller = caller],
                                  IF caller = "chat" THEN "Error: " \o NoAnalysisMessage
                                  ELSE WebviewErrorMessage(Error(NoAnalysisMessage)))]
    /\ UNCHANGED <<queryConfig, qryOthers>>

\* handleChatRequest after its await of sendQuery: response.markdown of the rendered
\* response or of the error message.
HandleChatRespond(i) ==
    /\ query[i].pc = "settled"
    /\ query[i].caller = "chat"
    /\ LET rendering == Rendering(query[i])
       IN  query' = [query EXCEPT ![i] =
                        Responded(query[i],
                                  IF query[i].outcome = Returned(JsFalsy)
                                  THEN "Error: " \o NoResponseMessage
                                  ELSE IF rendering.kind = "return" THEN rendering.data
                                  ELSE ChatErrorMessage(rendering.error, query[i]))]
    /\ UNCHANGED <<queryConfig, qryOthers>>

\* HandleQueryRespond with queryLoading = false sent on the success path only.
HandleQueryRespond_NoFinally(i) ==
    /\ query[i].pc = "settled"
    /\ query[i].caller = "webview"
    /\ LET rendering == Rendering(query[i])
           failed == query[i].outcome = Returned(JsFalsy) \/ rendering.kind = "throw"
       IN  query' = [query EXCEPT ![i] =
                        [Responded(query[i],
                                   IF query[i].outcome = Returned(JsFalsy)
                                   THEN WebviewErrorMessage(Error(NoResponseMessage))
                                   ELSE IF rendering.kind = "return" THEN rendering.data
                                   ELSE WebviewErrorMessage(rendering.error))
                            EXCEPT !.loading = failed]]
    /\ UNCHANGED <<queryConfig, qryOthers>>

\* WebviewProvider._handleQuery after its await of sendQuery: the assistant message
\* pushed to the conversation history.
HandleQueryRespond(i) ==
    /\ query[i].pc = "settled"
    /\ query[i].caller = "webview"
    /\ LET rendering == Rendering(query[i])
       IN  query' = [query EXCEPT ![i] =
                        Responded(query[i],
                                  IF query[i].outcome = Returned(JsFalsy)
                                  THEN WebviewErrorMessage(Error(NoResponseMessage))
                                  ELSE IF rendering.kind = "return" THEN rendering.data
                                  ELSE WebviewErrorMessage(rendering.error))]
    /\ UNCHANGED <<queryConfig, qryOthers>>

\* The request is over; the slot is free for another call.
QueryRelease(i) ==
    /\ query[i].pc = "responded"
    /\ query' = [query EXCEPT ![i] = IdleQuery]
    /\ UNCHANGED <<queryConfig, qryOthers>>

\* The user changes serverUrl or requestTimeoutMs.
QueryConfigUpdate(cfg) ==
    /\ cfg # queryConfig
    /\ queryConfig' = cfg
    /\ UNCHANGED <<query, qryOthers>>

QryInit ==
    /\ queryConfig \in QueryConfigs
    /\ query = [i \in 1..MaxQueries |-> IdleQuery]

QryIdle ==
    /\ queryConfig = [serverUrl |-> "http://localhost:8000", requestTimeoutMs |-> 20000]
    /\ query = [i \in 1..MaxQueries |-> IdleQuery]

QryNext ==
    \/ \E i \in 1..MaxQueries : HandleWithoutAnalysis(i)
    \/ \E i \in 1..MaxQueries : SendQueryCall(i)
    \/ \E i \in 1..MaxQueries : FetchResolve(i)
    \/ \E i \in 1..MaxQueries : FetchReject(i)
    \/ \E i \in 1..MaxQueries : TimerFires(i)
    \/ \E i \in 1..MaxQueries : DeadlinePasses(i)
    \/ \E i \in 1..MaxQueries : JsonSettle(i)
    \/ \E i \in 1..MaxQueries : TextSettle(i)
    \/ \E i \in 1..MaxQueries : HandleChatRespond(i)
    \/ \E i \in 1..MaxQueries : HandleQueryRespond(i)
    \/ \E i \in 1..MaxQueries : QueryRelease(i)
    \/ \E cfg \in QueryConfigs : QueryConfigUpdate(cfg)

(***************************************************************************)
(* Connection test: testConnection.                                        *)
(***************************************************************************)
\* Statuses GET /health can answer with.
HealthStatusChoices == {200, 201, 404, 500}

\* Who runs the test: the command, or the webview panel (_handleTestConnection),
\* which shows a connection status.
TestCallers == {"command", "webview"}

\* One testConnection invocation. caught is the error its catch block received,
\* result is what it returned, shown the message it showed, connectionStatus the
\* status of the webview panel.
IdleTest ==
    [pc |-> "idle", via |-> "", serverUrl |-> "", timeoutMs |-> 0, timer |-> "none",
     status |-> 0, caught |-> None, result |-> Pending, shown |-> None,
     connectionStatus |-> "none"]

\* testConnection returns; _handleTestConnection sets the status from what it got.
TestReturned(c, result, message) ==
    [c EXCEPT !.pc = "done", !.result = result, !.shown = Some(message),
              !.connectionStatus = IF c.via # "webview" THEN "none"
                                   ELSE IF result THEN "connected" ELSE "disconnected"]

\* The catch block of testConnection.
TestCaught(c, error) ==
    TestReturned([c EXCEPT !.caught = Some(error)], FALSE,
                 IF error.name = "AbortError"
                 THEN "AI Code Snippet RAG: Connection timeout after "
                          \o NumberToString(c.timeoutMs) \o "ms"
                 ELSE "AI Code Snippet RAG: Connection error - " \o error.message)

\* testConnection up to its await of fetch.
TestConnectionCall ==
    /\ connTest.pc = "idle"
    /\ \E via \in TestCallers :
          connTest' = [IdleTest EXCEPT !.pc = "fetch",
                                       !.via = via,
                                       !.serverUrl = queryConfig.serverUrl,
                                       !.timeoutMs = queryConfig.requestTimeoutMs,
                                       !.timer = "armed",
                                       !.connectionStatus =
                                           IF via = "webview" THEN "checking" ELSE "none"]
    /\ UNCHANGED tcOthers

\* TestFetchResolve without the test of response.ok.
TestFetchResolve_NoStatusTest ==
    /\ connTest.pc = "fetch"
    /\ \E status \in HealthStatusChoices :
          connTest' = [connTest EXCEPT !.timer = "cleared", !.status = status, !.pc = "json"]
    /\ UNCHANGED tcOthers

\* fetch resolves: clearTimeout; an ok response goes on to response.json(), any
\* other returns false.
TestFetchResolve ==
    /\ connTest.pc = "fetch"
    /\ \E status \in HealthStatusChoices :
          LET c == [connTest EXCEPT !.timer = "cleared", !.status = status]
          IN  connTest' = IF IsOk(status) THEN [c EXCEPT !.pc = "json"]
                          ELSE TestReturned(c, FALSE,
                                            "AI Code Snippet RAG: Connection failed (HTTP "
                                                \o NumberToString(status) \o ")")
    /\ UNCHANGED tcOthers

\* fetch rejects for a reason of its own.
TestFetchReject ==
    /\ connTest.pc = "fetch"
    /\ \E error \in FetchRejections : connTest' = TestCaught(connTest, error)
    /\ UNCHANGED tcOthers

\* The timer fires: controller.abort(). A pending fetch rejects with AbortError.
TestTimerFires ==
    /\ connTest.timer = "armed"
    /\ LET c == [connTest EXCEPT !.timer = "fired"]
       IN  connTest' = IF c.pc = "fetch" THEN TestCaught(c, AbortError) ELSE c
    /\ UNCHANGED tcOthers

\* response.json() settles: with the parsed body, which is only logged, or with a
\* rejection because the body is not JSON or could not be read.
TestJsonSettle ==
    /\ connTest.pc = "json"
    /\ \/ connTest' = TestReturned(connTest, TRUE,
                                   "AI Code Snippet RAG: Connection successful to "
                                       \o connTest.serverUrl)
       \/ connTest' = TestCaught(connTest, JsonSyntaxError)
       \/ connTest' = TestCaught(connTest, Terminated)
    /\ UNCHANGED tcOthers

\* The caller has received the result.
TestRelease ==
    /\ connTest.pc = "done"
    /\ connTest' = IdleTest
    /\ UNCHANGED tcOthers

TcInit == connTest = IdleTest

TcIdle == connTest = IdleTest

TcNext ==
    \/ TestConnectionCall
    \/ TestFetchResolve
    \/ TestFetchReject
    \/ TestTimerFires
    \/ TestJsonSettle
    \/ TestRelease
    \/ \E cfg \in QueryConfigs : QueryConfigUpdate(cfg)

(***************************************************************************)
(* Renderer runs: renderResponse applied to a QueryResponse.               *)
(***************************************************************************)
AnswerLists ==
    UNION { [1..n -> WellFormedAnswers] : n \in 0..MaxAnswers }
        \cup UNION { [1..n -> WellFormedAnswers \cup MalformedAnswers] : n \in 1..2 }

RndResponses ==
    (Shapeless \ {JsNull}) \cup { [answers |-> JsArray(l)] : l \in AnswerLists }

\* The backend sends one more answer.
RndAppend(answer) ==
    /\ rndOut = NotRun
    /\ rndResponse.answers \notin {Undefined, JsNull, JsObject}
    /\ Len(rndResponse.answers.items) < MaxAnswers
    /\ rndResponse' = [answers |-> JsArray(Append(rndResponse.answers.items, answer))]
    /\ UNCHANGED <<rndOut, rndOthers>>

RndRender ==
    /\ rndOut = NotRun
    /\ rndOut' = [done |-> TRUE, rendering |-> renderResponse(rndResponse)]
    /\ UNCHANGED <<rndResponse, rndOthers>>

RndInit ==
    /\ rndResponse \in RndResponses
    /\ rndOut = NotRun

RndIdle ==
    /\ rndResponse = [answers |-> JsArray(<<>>)]
    /\ rndOut = NotRun

RndNext ==
    \/ \E answer \in WellFormedAnswers \cup MalformedAnswers : RndAppend(answer)
    \/ RndRender

(***************************************************************************)
(* Chat panel: the webview script and WebviewProvider._handleQuery.        *)
(***************************************************************************)
\* String.prototype.trim() for texts padded with spaces.
RECURSIVE trim(_)
trim(s) ==
    IF s = "" THEN ""
    ELSE IF CharAt(s, 1) = " " THEN trim(Suffix(s, 2))
    ELSE IF CharAt(s, Len(s)) = " " THEN trim(Prefix(s, Len(s) - 1))
    ELSE s

\* What the user can have typed into queryInput when handleSend runs.
InputTexts == {"find x", " why ", "  "}

\* What analyzeWorkspace and sendQuery can give to _handleQuery.
PanelAnalyses == {"null", "analysis"}

PanelOutcomes ==
    { Returned([answers |-> JsArray(<<>>)]),
      Returned([answers |-> JsArray(<<Answer("a.ts", 1, 2, "x", JsNumber(87), "why")>>)]),
      Returned([answers |-> JsObject]),
      Returned(JsFalsy),
      Thrown(Error("Request timeout after 20000ms")) }

Message(type, data) == [type |-> type, data |-> data]

Entry(role, content) == [role |-> role, content |-> content]

IdleHandler == [pc |-> "idle", queryText |-> ""]

\* handleSend(): a blank text and a text submitted while isLoading are dropped;
\* otherwise the trimmed text is posted as a 'query' message.
HandleSend(text) ==
    /\ sends < MaxSends
    /\ sends' = sends + 1
    /\ LET q == trim(text)
       IN  toExtension' = IF q = "" \/ isLoading THEN toExtension
                          ELSE Append(toExtension, Message("query", q))
    /\ UNCHANGED <<isLoading, toWebview, conversationHistory, handler, pnlOthers>>

\* _handleMessage receives a 'query' message: _handleQuery up to its await of
\* analyzeWorkspace. The 'conversationHistory' messages, which the webview script
\* handles without touching isLoading, are left out of toWebview.
HandleQueryReceive(h) ==
    /\ toExtension # <<>>
    /\ handler[h].pc = "idle"
    /\ \A g \in 1..MaxSends : g < h => handler[g].pc # "idle"
    /\ LET queryText == Head(toExtension).data
       IN  IF queryText = "" \/ trim(queryText) = ""
           THEN UNCHANGED <<conversationHistory, toWebview, handler>>
           ELSE /\ conversationHistory' = Append(conversationHistory, Entry("user", queryText))
                /\ toWebview' = Append(toWebview, Message("queryLoading", TRUE))
                /\ handler' = [handler EXCEPT ![h] = [pc |-> "analyze", queryText |-> queryText]]
    /\ toExtension' = Tail(toExtension)
    /\ UNCHANGED <<isLoading, sends, pnlOthers>>

\* The catch block without its push to the history.
Failed_NoEntry(history, error) == history

\* The catch block of _handleQuery: the history after its push.
Failed_History(history, error) ==
    Append(history, Entry("assistant", WebviewErrorMessage(error)))

\* The catch and finally blocks of _handleQuery.
HandlerFails(h, error) ==
    /\ conversationHistory' = Failed_History(conversationHistory, error)
    /\ toWebview' = toWebview \o <<Message("error", error.message),
                                   Message("queryLoading", FALSE)>>
    /\ handler' = [handler EXCEPT ![h] = IdleHandler]

\* await analyzeWorkspace() settles: null is thrown as an Error; with an Analysis
\* sendQuery is called.
HandlerAnalyzed(h) ==
    /\ handler[h].pc = "analyze"
    /\ \E analysis \in PanelAnalyses :
          IF analysis = "null"
          THEN HandlerFails(h, Error(NoAnalysisMessage))
          ELSE /\ handler' = [handler EXCEPT ![h].pc = "query"]
               /\ UNCHANGED <<conversationHistory, toWebview>>
    /\ UNCHANGED <<isLoading, toExtension, sends, pnlOthers>>

\* await sendQuery(...) settles: the rendered response is pushed and sent, or the
\* catch block runs; the finally block sends queryLoading = false.
HandlerAnswered(h) ==
    /\ handler[h].pc = "query"
    /\ \E outcome \in PanelOutcomes :
          LET rendering == Rendering([outcome |-> outcome])
          IN  IF outcome = Returned(JsFalsy)
              THEN HandlerFails(h, Error(NoResponseMessage))
              ELSE IF rendering.kind = "throw"
              THEN HandlerFails(h, rendering.error)
              ELSE /\ conversationHistory' =
                          Append(conversationHistory, Entry("assistant", rendering.data))
                   /\ toWebview' = toWebview \o <<Message("queryResponse", rendering.data),
                                                  Message("queryLoading", FALSE)>>
                   /\ handler' = [handler EXCEPT ![h] = IdleHandler]
    /\ UNCHANGED <<isLoading, toExtension, sends, pnlOthers>>

\* The message listener of the webview script: showLoading / hideLoading.
WebviewReceive ==
    /\ toWebview # <<>>
    /\ LET message == Head(toWebview)
       IN  isLoading' = IF message.type = "queryLoading" THEN message.data ELSE FALSE
    /\ toWebview' = Tail(toWebview)
    /\ UNCHANGED <<toExtension, conversationHistory, handler, sends, pnlOthers>>

PnlInit ==
    /\ isLoading = FALSE
    /\ toExtension = <<>>
    /\ toWebview = <<>>
    /\ conversationHistory = <<>>
    /\ handler = [h \in 1..MaxSends |-> IdleHandler]
    /\ sends = 0

PnlIdle == PnlInit

PnlNext ==
    \/ \E text \in InputTexts : HandleSend(text)
    \/ \E h \in 1..MaxSends : HandleQueryReceive(h)
    \/ \E h \in 1..MaxSends : HandlerAnalyzed(h)
    \/ \E h \in 1..MaxSends : HandlerAnswered(h)
    \/ WebviewReceive

(***************************************************************************)
(* Specifications.                                                         *)
(***************************************************************************)
InitClassifier == ClsInit /\ FpIdle /\ AnaIdle /\ QryIdle /\ RndIdle /\ TcIdle /\ PnlIdle

SpecClassifier == InitClassifier /\ [][ClsNext]_vars

InitFingerprint == FpInit /\ ClsIdle /\ AnaIdle /\ QryIdle /\ RndIdle /\ TcIdle /\ PnlIdle

SpecFingerprint == InitFingerprint /\ [][FpNext]_vars

InitAnalysis == AnaInit /\ ClsIdle /\ FpIdle /\ QryIdle /\ RndIdle /\ TcIdle /\ PnlIdle

SpecAnalysis == InitAnalysis /\ [][AnaNext]_vars

InitQuery == QryInit /\ ClsIdle /\ FpIdle /\ AnaIdle /\ RndIdle /\ TcIdle /\ PnlIdle

SpecQuery == InitQuery /\ [][QryNext]_vars

\* Overlapping queries: MaxOverlap sendQuery calls side by side.
OvlInit ==
    /\ queryConfig \in QueryConfigs
    /\ query = [i \in 1..MaxOverlap |-> IdleQuery]

OvlNext ==
    \/ \E i \in 1..MaxOverlap : HandleWithoutAnalysis(i)
    \/ \E i \in 1..MaxOverlap : SendQueryCall(i)
    \/ \E i \in 1..MaxOverlap : FetchResolve(i)
    \/ \E i \in 1..MaxOverlap : FetchReject(i)
    \/ \E i \in 1..MaxOverlap : TimerFires(i)
    \/ \E i \in 1..MaxOverlap : DeadlinePasses(i)
    \/ \E i \in 1..MaxOverlap : JsonSettle(i)
    \/ \E i \in 1..MaxOverlap : TextSettle(i)
    \/ \E i \in 1..MaxOverlap : HandleChatRespond(i)
    \/ \E i \in 1..MaxOverlap : HandleQueryRespond(i)
    \/ \E i \in 1..MaxOverlap : QueryRelease(i)
    \/ \E cfg \in QueryConfigs : QueryConfigUpdate(cfg)

InitOverlap == OvlInit /\ ClsIdle /\ FpIdle /\ AnaIdle /\ RndIdle /\ TcIdle /\ PnlIdle

SpecOverlap == InitOverlap /\ [][OvlNext]_vars

InitConnectionTest == TcInit /\ QryInit /\ ClsIdle /\ FpIdle /\ AnaIdle /\ RndIdle /\ PnlIdle

SpecConnectionTest == InitConnectionTest /\ [][TcNext]_vars

InitRender == RndInit /\ ClsIdle /\ FpIdle /\ AnaIdle /\ QryIdle /\ TcIdle /\ PnlIdle

SpecRender == InitRender /\ [][RndNext]_vars

InitPanel == PnlInit /\ ClsIdle /\ FpIdle /\ AnaIdle /\ QryIdle /\ RndIdle /\ TcIdle

SpecPanel == InitPanel /\ [][PnlNext]_vars

(***************************************************************************)
(* Claims.                                                                 *)
(***************************************************************************)

\* C2: computeFingerprint is permutation-invariant: a file list and any reordering
\* of it have the same fingerprint.
IsReordering(x, y) ==
    /\ Len(x) = Len(y)
    /\ \E p \in [1..Len(x) -> 1..Len(x)] :
          /\ \A i, j \in 1..Len(x) : i # j => p[i] # p[j]
          /\ \A i \in 1..Len(x) : y[i] = x[p[i]]

C2_FingerprintPermutationInvariant ==
    (fpOut.done /\ IsReordering(fpA, fpB)) => fpOut.a = fpOut.b

C2_Witness ==
    /\ fpOut.done
    /\ Len(fpA) >= 2
    /\ IsReordering(fpA, fpB)
    /\ fpA # fpB
    /\ fpOut.a = fpOut.b

\* C3 (as claimed): two file lists whose multisets of (path, size, mtime) triples
\* differ are hashed from different strings and get different fingerprints, for
\* every path string, paths containing '|' or a newline included.
C3_DifferentTriplesDifferentFingerprint ==
    (fpOut.done /\ ~SameTriples(fpA, fpB)) =>
        /\ FingerprintInput(fpA) # FingerprintInput(fpB)
        /\ fpOut.a # fpOut.b

\* C4: the fingerprint does not depend on sample or languageId: two lists that agree
\* on every (path, size, mtime) triple have the same fingerprint.
AgreeOnTriples(x, y) ==
    /\ Len(x) = Len(y)
    /\ \A i \in 1..Len(x) : Triple(x[i]) = Triple(y[i])

C4_FingerprintIgnoresSample ==
    (fpOut.done /\ AgreeOnTriples(fpA, fpB)) => fpOut.a = fpOut.b

C4_Witness ==
    /\ fpOut.done
    /\ AgreeOnTriples(fpA, fpB)
    /\ \E i \in 1..Len(fpA) : fpA[i].sample # fpB[i].sample
    /\ \E i \in 1..Len(fpA) : fpA[i].languageId # fpB[i].languageId
    /\ fpOut.a = fpOut.b

\* C6: isSensitiveFile(path) is true exactly when, after lower-casing and converting
\* backslashes to forward slashes, the base name equals '.env' or starts with
\* '.env.', contains 'secrets', starts with 'id_rsa', ends with '.pfx', '.pem',
\* '.key' or '.p12', contains 'credentials', or a directory component contains
\* 'secrets' or 'credentials'; and the result is the same for every letter-case
\* and separator-style variant of the path.
SensitiveByRule(path) ==
    LET comps == SplitPath(replaceBackslashes(toLowerCase(path)), "", <<>>)
        base == IF comps = <<>> THEN "" ELSE comps[Len(comps)]
        dirs == IF comps = <<>> THEN {} ELSE {comps[i] : i \in 1..(Len(comps) - 1)}
    IN  \/ base = ".env"
        \/ startsWith(base, ".env.")
        \/ includes(base, "secrets")
        \/ startsWith(base, "id_rsa")
        \/ \E suffix \in {".pfx", ".pem", ".key", ".p12"} : endsWith(base, suffix)
        \/ includes(base, "credentials")
        \/ \E d \in dirs : includes(d, "secrets") \/ includes(d, "credentials")

C6_SensitiveExactlyByRule ==
    clsOut.done =>
        /\ clsOut.path = SensitiveByRule(clsPath)
        /\ clsOut.variant = clsOut.path

C6_Witness ==
    /\ clsOut.done
    /\ clsOut.path
    /\ clsOut.variant
    /\ clsFlips >= 2
    /\ toLowerCase(clsVariant) # toLowerCase(clsPath)
    /\ replaceBackslashes(clsVariant) # replaceBackslashes(clsPath)

\* C1 (as claimed): once an Analysis A is stored under key K, every later
\* analyzeWorkspace call for that root returns exactly A until rebuildAnalysis, a
\* workspace-folder change or deactivate removes the entry. A call that finds an
\* entry returns it, so this says that a stored snapshot is never replaced by
\* another one: it stays, or it is removed.
C1_SnapshotServedUntilInvalidated ==
    [][\A k \in CacheKeys :
          analysisCache[k] # NoEntry => analysisCache'[k] \in {analysisCache[k], NoEntry}]_vars

\* C5: no FileInfo that analyzeWorkspace collects, returns or caches has a path that
\* isSensitiveFile classifies as sensitive (PathFacts holds isSensitiveFile of each path).
NoSensitive(fileInfos) ==
    \A i \in 1..Len(fileInfos) : ~PathFacts[fileInfos[i].path].sensitive

IsAnalysis(x) == x \notin {NoEntry, Null, Pending}

C5_NoSensitiveFileInAnalysis ==
    /\ \A t \in 1..MaxTasks :
          /\ NoSensitive(task[t].fileInfos)
          /\ task[t].cur # NoFileInfo => ~PathFacts[task[t].cur.path].sensitive
          /\ IsAnalysis(task[t].result) => NoSensitive(task[t].result.files)
    /\ \A k \in CacheKeys :
          IsAnalysis(analysisCache[k]) => NoSensitive(analysisCache[k].files)

\* A sensitive candidate came back from findFiles and the loop has passed it.
C5_Witness ==
    \E t \in 1..MaxTasks :
        /\ task[t].pc \in {"stat", "read"}
        /\ \E j \in 1..(task[t].idx - 1) :
              isSensitiveFile(asRelativePath(task[t].files[j], workspaceFolders))
        /\ Len(task[t].fileInfos) = 0
        /\ ~isSensitiveFile(task[t].relativePath)

\* C7: with maxFiles = N configured, an Analysis computed by analyzeWorkspace has at
\* most N files.
Computed(tk) == tk.pc = "done" /\ ~tk.hit /\ IsAnalysis(tk.result)

C7_AtMostMaxFiles ==
    \A t \in 1..MaxTasks :
        Computed(task[t]) =>
            /\ task[t].result.fileCount <= task[t].cfg.maxFiles
            /\ Len(task[t].result.files) <= task[t].cfg.maxFiles

\* More candidates than maxFiles lie under the root and the Analysis holds maxFiles.
C7_Witness ==
    \E t \in 1..MaxTasks :
        /\ Computed(task[t])
        /\ task[t].result.fileCount = task[t].cfg.maxFiles
        /\ Cardinality({u \in DOMAIN disk :
                            /\ disk[u].exists
                            /\ Under(task[t].folder, u)
                            /\ ~PathFacts[u].sensitive
                            /\ ~PathFacts[asRelativePath(u, <<task[t].folder>>)].excluded})
              > task[t].cfg.maxFiles

\* A step in which invocation t pushes the record of the candidate it is at.
Pushes(t) ==
    /\ task[t].pc \in {"stat", "read"}
    /\ Len(task'[t].fileInfos) = Len(task[t].fileInfos) + 1

PushedRecord(t) == task'[t].fileInfos[Len(task'[t].fileInfos)]

FileAt(t) == disk[LoopFiles(task[t])[task[t].idx]]

IsSampleEligible(p) ==
    ~PathFacts[p].sensitive /\ PathFacts[p].ext \in TEXT_FILE_EXTENSIONS

\* C8 (as claimed): every sample-eligible file (non-sensitive, allow-listed
\* extension) with text of length L gets a sample: the first maxBytesPerFile
\* characters if L > maxBytesPerFile, the full text otherwise.
C8_EverySampleEligibleFileSampled ==
    [][\A t \in 1..MaxTasks :
          (Pushes(t) /\ FileAt(t).exists /\ IsSampleEligible(PushedRecord(t).path)) =>
              LET text == FileAt(t).text
                  maxBytesPerFile == task[t].cfg.maxBytesPerFile
              IN  PushedRecord(t).sample =
                      Some(IF Len(text) > maxBytesPerFile
                           THEN SubSeq(text, 1, maxBytesPerFile) ELSE text)]_vars

\* C8 (amended): the same for every sample-eligible file whose size at stat time is
\* greater than 0 and at most 10 * maxBytesPerFile and whose content is read
\* successfully.
C8_SampleIsPrefixOrFullText ==
    [][\A t \in 1..MaxTasks :
          (/\ Pushes(t)
           /\ IsSampleEligible(PushedRecord(t).path)
           /\ PushedRecord(t).size > 0
           /\ PushedRecord(t).size <= 10 * task[t].cfg.maxBytesPerFile
           /\ FileAt(t).exists /\ FileAt(t).readable) =>
              LET text == FileAt(t).text
                  maxBytesPerFile == task[t].cfg.maxBytesPerFile
              IN  PushedRecord(t).sample =
                      Some(IF Len(text) > maxBytesPerFile
                           THEN SubSeq(text, 1, maxBytesPerFile) ELSE text)]_vars

\* A record whose sample was cut to maxBytesPerFile characters.
C8_Witness ==
    \E t \in 1..MaxTasks : \E i \in 1..Len(task[t].fileInfos) :
        LET f == task[t].fileInfos[i]
        IN  /\ f.sample # None
            /\ Len(f.sample[1]) = task[t].cfg.maxBytesPerFile
            /\ f.size > task[t].cfg.maxBytesPerFile
            /\ f.sample[1] = SubSeq(disk[SourceFile].text, 1, task[t].cfg.maxBytesPerFile)

\* C9: a FileInfo carries a sample only if its path is non-sensitive, its lower-cased
\* extension is in the allow-list and 0 < size <= 10 * maxBytesPerFile; and every
\* sample is at most maxBytesPerFile characters long.
SampleJustified(f, cfg) ==
    f.sample # None =>
        /\ ~PathFacts[f.path].sensitive
        /\ PathFacts[f.path].ext \in TEXT_FILE_EXTENSIONS
        /\ 0 < f.size
        /\ f.size <= 10 * cfg.maxBytesPerFile
        /\ Len(f.sample[1]) <= cfg.maxBytesPerFile

C9_SampleOnlyWhenEligibleAndBounded ==
    \A t \in 1..MaxTasks :
        /\ \A i \in 1..Len(task[t].fileInfos) : SampleJustified(task[t].fileInfos[i], task[t].cfg)
        /\ task[t].cur # NoFileInfo => SampleJustified(task[t].cur, task[t].cfg)
        /\ Computed(task[t]) =>
              \A i \in 1..Len(task[t].result.files) :
                  SampleJustified(task[t].result.files[i], task[t].cfg)

\* A computed Analysis holds a record with a sample next to one without.
C9_Witness ==
    \E t \in 1..MaxTasks :
        /\ Computed(task[t])
        /\ \E i \in 1..Len(task[t].result.files) : task[t].result.files[i].sample # None
        /\ \E i \in 1..Len(task[t].result.files) : task[t].result.files[i].sample = None

\* How a thrown error reads to the caller of sendQuery.
IsTimeoutError(error) == startsWith(error.message, "Request timeout after ")

IsConnectivityError(error) == startsWith(error.message, "Cannot connect to backend at ")

IsHttpError(error) == startsWith(error.message, "HTTP ")

\* C10: when the timer of a sendQuery call fires while its request is in flight, the
\* request is aborted and the call fails with a Timeout error whose message contains
\* the timeoutMs the call was configured with: not a Connectivity or HTTP error.
C10_TimerFiringFailsWithTimeout ==
    [][\A i \in 1..MaxQueries :
          (query[i].pc = "fetch" /\ query[i].timer = "armed" /\ query'[i].timer = "fired") =>
              /\ query'[i].aborted
              /\ query'[i].pc = "settled"
              /\ query'[i].outcome # Null
              /\ query'[i].outcome.kind = "throw"
              /\ IsTimeoutError(query'[i].outcome.error)
              /\ includes(query'[i].outcome.error.message, NumberToString(query[i].timeoutMs))
              /\ ~IsConnectivityError(query'[i].outcome.error)
              /\ ~IsHttpError(query'[i].outcome.error)]_vars

\* A call timed out and reports the value it read, which the setting no longer has.
C10_Witness ==
    \E i \in 1..MaxQueries :
        /\ query[i].pc = "settled"
        /\ query[i].timer = "fired"
        /\ query[i].aborted
        /\ query[i].outcome = Thrown(Error("Request timeout after 4040ms"))
        /\ queryConfig.requestTimeoutMs # query[i].timeoutMs

\* A settled call that was answered with a non-ok status.
Settled(q) == q.pc \in {"settled", "responded"}

AnsweredNotOk(q) == Settled(q) /\ ~IsOk(q.status) /\ q.status # 0

FailedWith(q) == q.outcome.error

Failed(q) == Settled(q) /\ q.outcome # Null /\ q.outcome.kind = "throw"

IsNotImplementedDetail(error) ==
    /\ IsHttpError(error)
    /\ includes(error.message, "404")
    /\ includes(error.message, "/query not found")
    /\ includes(error.message, "needs to be implemented")
    /\ ~IsTimeoutError(error)
    /\ ~IsConnectivityError(error)

C12_HttpErrorCarriesStatusAndBody ==
    \A i \in 1..MaxQueries :
        (AnsweredNotOk(query[i]) /\ query[i].errorText # None) =>
            /\ Failed(query[i])
            /\ includes(FailedWith(query[i]).message, NumberToString(query[i].status))
            /\ includes(FailedWith(query[i]).message, query[i].errorText[1])

\* The cause of a failure, read from what the catch block received.
ConnectionCaused(q) == q.caught \in {Some(FetchFailed), Some(ConnectionRefused), Some(NameNotFound)}

\* C13 (as claimed): every failing sendQuery call is exactly one of Timeout,
\* Connectivity and HTTP error, and it is a Connectivity error exactly when the
\* connection itself failed: never for a response with a non-success status,
\* whatever its body, and never for a fired timeout.
C13_FailureClassifiedByCause ==
    \A i \in 1..MaxQueries :
        Failed(query[i]) =>
            LET error == FailedWith(query[i])
            IN  /\ Cardinality({k \in {"timeout", "connectivity", "http"} :
                                   \/ k = "timeout" /\ IsTimeoutError(error)
                                   \/ k = "connectivity" /\ IsConnectivityError(error)
                                   \/ k = "http" /\ IsHttpError(error)}) = 1
                /\ IsConnectivityError(error) <=> ConnectionCaused(query[i])

\* An answer list that is missing, not a list, empty, or holds an item without score.
IsUnusableAnswerList(answers) ==
    \/ answers \in {Undefined, JsNull}
    \/ answers.js # "array"
    \/ Len(answers.items) = 0
    \/ \E k \in 1..Len(answers.items) : answers.items[k].score = Undefined

\* C14 (as claimed): when the backend answers 2xx with an answer list that is empty,
\* missing or malformed, the query does not fail: what sendQuery returned is
\* rendered as exactly 'No results found.', not as an error message.
C14_UnusableAnswersRenderNoResults ==
    \A i \in 1..MaxQueries :
        (/\ query[i].pc = "responded"
         /\ IsOk(query[i].status)
         /\ query[i].outcome.kind = "return"
         /\ IsUnusableAnswerList(query[i].outcome.data.answers)) =>
            query[i].rendered = Some("No results found.")

\* The rendered text cut at the separator lines that end the blocks.
SeparatorAt(s) == {p \in 1..(Len(s) - 4) : SubSeq(s, p, p + 4) = "---\n\n"}

NthSeparator(s, k) ==
    CHOOSE p \in SeparatorAt(s) : Cardinality({q \in SeparatorAt(s) : q < p}) = k - 1

SplitBlocks(s) ==
    [k \in 1..Cardinality(SeparatorAt(s)) |->
        SubSeq(s, IF k = 1 THEN 1 ELSE NthSeparator(s, k - 1) + 5, NthSeparator(s, k) - 1)]

\* Every character of the text lies in a block or in the separator that ends one.
EndsWithSeparator(s) == s = "" \/ endsWith(s, "---\n\n")

IsBlockOf(block, answer) ==
    /\ startsWith(block, "**" \o answer.file \o "** (lines " \o NumberToString(answer.start_line)
                             \o "-" \o NumberToString(answer.end_line) \o ")")
    /\ includes(block, "\n" \o answer.code \o "\n" \o Fence \o "\n\n")
    /\ IF answer.explanation = ""
       THEN endsWith(block, "\n" \o answer.code \o "\n" \o Fence \o "\n\n")
       ELSE endsWith(block, "\n" \o Fence \o "\n\n" \o answer.explanation \o "\n\n")

\* C15: for a non-empty list of answers renderResponse emits one block per answer,
\* in the order of the list, none dropped, doubled, merged or moved; a block holds
\* the file, the start_line-end_line range and the code of its answer, and the
\* explanation exactly when it is not empty.
C15_OneBlockPerAnswerInOrder ==
    (/\ rndOut # NotRun
     /\ ~IsUnusableAnswerList(rndResponse.answers)) =>
        /\ rndOut.rendering.kind = "return"
        /\ LET answers == rndResponse.answers.items
               blocks == SplitBlocks(rndOut.rendering.data)
           IN  /\ EndsWithSeparator(rndOut.rendering.data)
               /\ Len(blocks) = Len(answers)
               /\ \A k \in 1..Len(answers) : IsBlockOf(blocks[k], answers[k])

\* Three answers rendered: two of the same file, one without explanation.
C15_Witness ==
    /\ rndOut # NotRun
    /\ ~IsUnusableAnswerList(rndResponse.answers)
    /\ Len(rndResponse.answers.items) = 3
    /\ rndResponse.answers.items[1].file = rndResponse.answers.items[3].file
    /\ rndResponse.answers.items[1] # rndResponse.answers.items[3]
    /\ rndResponse.answers.items[2].explanation = ""
    /\ rndOut.rendering.kind = "return"

\* C16 (as claimed): two analyses of the same root over an unchanged file system
\* with unchanged configuration, the second obtained by a rebuild, have the same
\* fingerprint, whatever order findFiles returns the candidates in and also when
\* there are more candidates than maxFiles.
C16_UnchangedWorkspaceSameFingerprint ==
    \A t1, t2 \in 1..MaxTasks :
        (/\ envChanges = 0
         /\ Computed(task[t1]) /\ Computed(task[t2])
         /\ task[t2].caller = "rebuild"
         /\ task[t1].folder = task[t2].folder) =>
            task[t1].result.fingerprint = task[t2].result.fingerprint

\* C17 (as claimed): a call of analyzeWorkspace made without a workspace folder returns
\* null at once, with no enumeration started and the cache left as it was; and an
\* invocation returns null only when it was made without a workspace folder.
C17_AbsenceExactlyWithoutRoot ==
    [][\A t \in 1..MaxTasks :
          /\ (task[t].pc = "idle" /\ task'[t].pc # "idle" /\ workspaceFolders = <<>>) =>
                 /\ task'[t].pc = "done"
                 /\ task'[t].result = Null
                 /\ analysisCache' = analysisCache
          /\ (task[t].pc # "done" /\ task'[t].pc = "done" /\ task'[t].result = Null) =>
                 /\ task[t].pc = "idle"
                 /\ workspaceFolders = <<>>]_vars

\* The candidates after the one invocation t is at that the loop does not pass over.
LaterCandidates(t) ==
    {j \in (task[t].idx + 1)..Len(LoopFiles(task[t])) :
        ~SkipsFile(asRelativePath(LoopFiles(task[t])[j], workspaceFolders))}

\* Invocation t goes on to the next candidate, or, after the last one, returns an
\* Analysis that is also the cache entry of its folder.
GoesOn(t) ==
    IF LaterCandidates(t) = {}
    THEN /\ task'[t].pc = "done"
         /\ IsAnalysis(task'[t].result)
         /\ task'[t].result.files = task'[t].fileInfos
         /\ analysisCache'[task[t].folder.uri] = task'[t].result
    ELSE /\ task'[t].pc = "stat"
         /\ \A j \in LaterCandidates(t) : task'[t].idx <= j
         /\ task'[t].idx \in LaterCandidates(t)

\* The stat of the candidate of invocation t settles with a rejection.
StatFails(t) ==
    /\ task[t].pc = "stat"
    /\ <<task'[t].pc, task'[t].idx>> # <<task[t].pc, task[t].idx>>
    /\ ~FileAt(t).exists

\* The readFile of the candidate of invocation t settles with a rejection.
ReadFails(t) ==
    /\ task[t].pc = "read"
    /\ <<task'[t].pc, task'[t].idx>> # <<task[t].pc, task[t].idx>>
    /\ ~(FileAt(t).exists /\ FileAt(t).readable)

\* C18: a failure on one file never aborts the analysis. When the stat of a candidate
\* fails no record is added for it; when the read of its content fails its record is
\* added without a sample; either way the loop goes on with the next candidate and,
\* after the last one, analyzeWorkspace returns an Analysis and stores it in the cache.
C18_FileFailureNeverAborts ==
    [][\A t \in 1..MaxTasks :
          /\ StatFails(t) =>
                 /\ task'[t].fileInfos = task[t].fileInfos
                 /\ GoesOn(t)
          /\ ReadFails(t) =>
                 /\ Pushes(t)
                 /\ PushedRecord(t).path = task[t].relativePath
                 /\ PushedRecord(t).size = task[t].cur.size
                 /\ PushedRecord(t).sample = None
                 /\ GoesOn(t)]_vars

\* An Analysis was returned and cached whose first record is the source file, kept
\* without a sample because its content could not be read, followed by the record of
\* the candidate that came after it.
C18_Witness ==
    \E t \in 1..MaxTasks :
        /\ Computed(task[t])
        /\ task[t].result.fileCount = 2
        /\ task[t].result.files[1].path = "src/a.ts"
        /\ task[t].result.files[1].size = 2
        /\ task[t].result.files[1].sample = None
        /\ ~disk[SourceFile].readable
        /\ analysisCache[task[t].folder.uri] = task[t].result

\* The stat of the first candidate failed and the loop is at the second one.
C18_StatFailureSkipped ==
    \E t \in 1..MaxTasks :
        /\ task[t].pc = "stat"
        /\ task[t].idx = 2
        /\ LoopFiles(task[t])[1] = SourceFile
        /\ ~disk[SourceFile].exists
        /\ task[t].fileInfos = <<>>

\* Invocation t of analyzeWorkspace is made, by the activation or by a query, while
\* the cache holds an entry for the workspace folder.
CalledOnCachedRoot(t) ==
    /\ task[t].pc = "idle"
    /\ task'[t].pc # "idle"
    /\ task'[t].caller # "rebuild"
    /\ workspaceFolders # <<>>
    /\ analysisCache[workspaceFolders[1].uri] # NoEntry

\* C19: a cache hit has no side effects. A call that finds an entry for the workspace
\* folder returns that entry at once: it never waits for an enumeration, a stat or a
\* read, and it leaves the cache as it was, whatever the files on disk are by then.
C19_CacheHitHasNoSideEffects ==
    [][\A t \in 1..MaxTasks :
          CalledOnCachedRoot(t) =>
              /\ task'[t].pc = "done"
              /\ task'[t].hit
              /\ task'[t].result = analysisCache[workspaceFolders[1].uri]
              /\ task'[t].fileInfos = <<>>
              /\ analysisCache' = analysisCache
              /\ disk' = disk]_vars

\* A call was served from the cache although the source file has been changed since
\* the entry was stored: the entry still holds the old record of the file.
C19_Witness ==
    \E t \in 1..MaxTasks :
        /\ task[t].pc = "done"
        /\ task[t].hit
        /\ task[t].result = analysisCache[task[t].folder.uri]
        /\ disk[SourceFile] # InitialDisk[SourceFile]
        /\ \E i \in 1..Len(task[t].result.files) :
              /\ task[t].result.files[i].path = "src/a.ts"
              /\ task[t].result.files[i].mtime = InitialDisk[SourceFile].mtime

\* Invocation t is between its call and its return.
Running(t) == task[t].pc \in {"findFiles", "stat", "read"}

\* C20 (as claimed): an analyzeWorkspace call made by the activation or by a query
\* while another such analysis of the same workspace folder is running does not start
\* an enumeration of its own: no enumeration of a folder is in progress next to
\* another running analysis of that folder. Analyses started by 'Rebuild Analysis'
\* are left aside.
C20_OneEnumerationPerRoot ==
    \A t1, t2 \in 1..MaxTasks :
        (/\ t1 # t2
         /\ Running(t1)
         /\ task[t2].pc = "findFiles"
         /\ task[t1].caller # "rebuild" /\ task[t2].caller # "rebuild") =>
            task[t1].folder # task[t2].folder

\* In this step invocation t leaves its loop and returns the Analysis it has built.
Completes(t) ==
    /\ Running(t)
    /\ task'[t].pc = "done"
    /\ task'[t].result # Null

\* C21: overlapping analyses of a workspace folder write last-write-wins. An analysis
\* that completes stores its whole Analysis (the records of every candidate it has
\* processed) in the slot of its folder, whatever the slot held and whatever other
\* analyses are running; and the cache changes in no other way than by such a store
\* or by the removal of entries, so that it never holds a partly built Analysis.
C21_LastWriteWins ==
    [][/\ \A t \in 1..MaxTasks :
             Completes(t) =>
                 /\ IsAnalysis(task'[t].result)
                 /\ task'[t].result.files = task'[t].fileInfos
                 /\ task'[t].result.fileCount = Len(task'[t].fileInfos)
                 /\ analysisCache' =
                        [analysisCache EXCEPT ![task[t].folder.uri] = task'[t].result]
       /\ \A k \in CacheKeys :
             analysisCache'[k] # analysisCache[k] =>
                 \/ analysisCache'[k] = NoEntry
                 \/ \E t \in 1..MaxTasks :
                       /\ Completes(t)
                       /\ task[t].folder.uri = k
                       /\ analysisCache'[k] = task'[t].result]_vars

\* Two analyses of the same folder, one of them started by 'Rebuild Analysis', have
\* both completed with different Analyses, and the slot holds the one stored last.
C21_Witness ==
    \E t1, t2 \in 1..MaxTasks :
        /\ Computed(task[t1]) /\ Computed(task[t2])
        /\ task[t1].folder = task[t2].folder
        /\ task[t2].caller = "rebuild"
        /\ task[t1].result # task[t2].result
        /\ analysisCache[task[t1].folder.uri] = task[t1].result

\* C22: overlapping queries are independent. Every call has its own timer and its
\* own AbortController: when the timer of one call fires, no other call changes; and
\* a call fails with the timeout error only in the step in which its own timer fires
\* while its own fetch is pending, the message carrying its own duration; the signal
\* of a call is aborted by nothing but its own timer.
C22_TimeoutAbortsOnlyItsCall ==
    [][\A i \in DOMAIN query :
          /\ (query[i].timer = "armed" /\ query'[i].timer = "fired") =>
                 \A j \in DOMAIN query \ {i} : query'[j] = query[j]
          /\ (/\ query[i].pc # "settled"
              /\ query'[i].pc = "settled"
              /\ query'[i].outcome.kind = "throw"
              /\ IsTimeoutError(query'[i].outcome.error)) =>
                 /\ query[i].pc = "fetch"
                 /\ query[i].timer = "armed"
                 /\ query'[i].timer = "fired"
                 /\ query'[i].outcome.error.message =
                        "Request timeout after " \o NumberToString(query[i].timeoutMs) \o "ms"
          /\ (query'[i].aborted /\ ~query[i].aborted) =>
                 (query[i].timer = "armed" /\ query'[i].timer = "fired")]_vars

\* One call has just failed with its timeout while another call is in flight, its
\* own timer armed and its signal not aborted.
C22_Witness ==
    \E i, j \in DOMAIN query :
        /\ i # j
        /\ query[i].pc = "settled"
        /\ query[i].outcome.kind = "throw"
        /\ IsTimeoutError(query[i].outcome.error)
        /\ query[j].pc = "fetch"
        /\ query[j].timer = "armed"
        /\ ~query[j].aborted
        /\ query[j].timeoutMs # query[i].timeoutMs

\* A sendQuery call that has neither returned nor thrown.
QueryPending(q) == q.pc \in {"fetch", "json", "text"}

\* C23 (as claimed): the timeout is a hard bound: no call is still pending once its
\* timeoutMs have gone by, the reading of the response body included.
C23_NoCallPendingPastDeadline ==
    \A i \in DOMAIN query : ~(QueryPending(query[i]) /\ query[i].overdue)

\* The handler of call i has ended on a failure: analyzeWorkspace returned null,
\* sendQuery threw, it returned a falsy value, or renderResponse threw.
HandlerFailed(q) ==
    /\ q.pc = "responded"
    /\ \/ q.outcome = Null
       \/ q.outcome = Returned(JsFalsy)
       \/ q.outcome # Null /\ Rendering(q).kind = "throw"

\* In this step the handler of call i ends.
HandlerEnds(i) == query[i].pc # "responded" /\ query'[i].pc = "responded"

\* C24: every failure path leaves the system ready for the next query. A handler
\* that ends on a failure has rendered exactly one message, which is its error
\* message; the webview's loading state is off; the cache, the settings and every
\* other call are as they were; nothing is rendered before the handler ends; and the
\* slot it leaves behind is the one a first query starts from.
C24_FailureLeavesSystemReady ==
    [][\A i \in 1..MaxQueries :
          /\ (HandlerEnds(i) /\ HandlerFailed(query'[i])) =>
                 /\ query'[i].messages = 1
                 /\ query'[i].rendered # None
                 /\ \/ startsWith(query'[i].rendered[1], "**Error:** ")
                    \/ startsWith(query'[i].rendered[1], "Error: ")
                 /\ ~query'[i].loading
                 /\ analysisCache' = analysisCache
                 /\ queryConfig' = queryConfig
                 /\ \A j \in 1..MaxQueries \ {i} : query'[j] = query[j]
          /\ query[i].pc # "responded" => query[i].messages = 0
          /\ (query[i].pc = "responded" /\ query'[i].pc # "responded") =>
                 query'[i] = IdleQuery
          /\ (query[i].pc \in {"fetch", "json", "text", "settled"} /\ query[i].caller = "webview")
                 => query[i].loading]_vars

\* The webview handler has ended on a timeout: one message, loading off.
C24_Witness ==
    \E i \in 1..MaxQueries :
        /\ HandlerFailed(query[i])
        /\ query[i].caller = "webview"
        /\ query[i].outcome # Null
        /\ query[i].outcome.kind = "throw"
        /\ IsTimeoutError(query[i].outcome.error)
        /\ query[i].messages = 1
        /\ ~query[i].loading

\* The text names the number of files of the Analysis.
ShowsFileCount(text, fileCount) ==
    \/ includes(text, "**Files analyzed:** " \o NumberToString(fileCount) \o "\n")
    \/ includes(text, " " \o NumberToString(fileCount) \o " files")

\* C25 (as claimed): whenever a query fails after the Analysis was obtained, the
\* error text shown to the user includes the file count of the Analysis, in the chat
\* path and in the webview path alike.
C25_ErrorTextShowsFileCount ==
    \A i \in 1..MaxQueries :
        (HandlerFailed(query[i]) /\ query[i].outcome # Null) =>
            ShowsFileCount(query[i].rendered[1], query[i].fileCount)

\* testConnection has returned after GET /health was answered with a 2xx status.
AnsweredSuccess(c) == c.pc = "done" /\ c.status >= 200 /\ c.status <= 299

\* C26 (as claimed): testConnection returns true whenever GET /health answers with a
\* 2xx status within the timeout, whatever the body.
C26_Any2xxIsReachable ==
    AnsweredSuccess(connTest) => connTest.result = TRUE

\* C26 (amended): testConnection returns true exactly when GET /health answers with a
\* 2xx status within the timeout and the body is read and parsed as JSON; it returns
\* false on a 2xx answer whose body is not readable JSON, on any other status, on a
\* fired timeout and on a connection failure; and it always returns a boolean.
C26_ReachableOn2xxWithReadableJson ==
    connTest.pc = "done" =>
        /\ connTest.result \in BOOLEAN
        /\ connTest.result = (AnsweredSuccess(connTest) /\ connTest.caught = None)
        /\ (connTest.status # 0 /\ ~AnsweredSuccess(connTest)) => connTest.result = FALSE
        /\ (connTest.caught # None) => connTest.result = FALSE
        /\ (connTest.via = "webview") =>
               connTest.connectionStatus =
                   (IF connTest.result THEN "connected" ELSE "disconnected")

\* GET /health was answered 201 and testConnection returned true.
C26_Witness ==
    /\ connTest.pc = "done"
    /\ connTest.status = 201
    /\ connTest.timer = "cleared"
    /\ connTest.result = TRUE

\* The backend answered with a success status and a body that is not JSON.
Unparseable(q) ==
    /\ Settled(q)
    /\ IsOk(q.status)
    /\ q.caught \in {Some(JsonSyntaxError), Some(UnexpectedToken)}

\* C27 (as claimed): when the backend answers 2xx with a body that cannot be parsed,
\* sendQuery fails with an HTTP error, which carries the status, and not with a
\* Timeout or Connectivity error; and the handler renders the failure as an error
\* message.
C27_UnparseableBodyFailsAsHttpError ==
    \A i \in 1..MaxQueries :
        Unparseable(query[i]) =>
            /\ Failed(query[i])
            /\ IsHttpError(FailedWith(query[i]))
            /\ includes(FailedWith(query[i]).message, NumberToString(query[i].status))
            /\ ~IsTimeoutError(FailedWith(query[i]))
            /\ ~IsConnectivityError(FailedWith(query[i]))
            /\ query[i].pc = "responded" =>
                   /\ query[i].messages = 1
                   /\ includes(query[i].rendered[1], "**Error:** ")

\* The workspace folder with key k is open.
IsOpenRoot(k) == \E n \in 1..Len(workspaceFolders) : workspaceFolders[n].uri = k

\* C28 (as claimed): the cache holds entries of open workspace folders only: once a
\* change of the workspace folders has cleared it, no entry of a folder that is no
\* longer open appears, not even one written by an analysis that was running when
\* the folders changed.
C28_EntriesOnlyForOpenRoots ==
    \A k \in CacheKeys : analysisCache[k] # NoEntry => IsOpenRoot(k)

\* fileCount and fingerprint of an Analysis are those of its records.
IsConsistent(analysis) ==
    /\ analysis.fileCount = Len(analysis.files)
    /\ analysis.fingerprint = computeFingerprint(analysis.files)

\* C29: every Analysis that analyzeWorkspace has returned and every Analysis in the
\* cache is consistent: fileCount is the number of its records and fingerprint is
\* computeFingerprint of exactly those records; and the request built from an
\* Analysis carries the same fileCount, fingerprint and files.
C29_AnalysisAndRequestConsistent ==
    /\ \A t \in 1..MaxTasks :
          /\ (task[t].pc \in {"done", "sent"} /\ task[t].result # Null) =>
                 /\ IsAnalysis(task[t].result)
                 /\ IsConsistent(task[t].result)
          /\ task[t].pc = "sent" =>
                 /\ task[t].request.repo_context.fileCount = task[t].result.fileCount
                 /\ task[t].request.repo_context.fingerprint = task[t].result.fingerprint
                 /\ task[t].request.repo_context.files = task[t].result.files
                 /\ IsConsistent(task[t].request.repo_context)
    /\ \A k \in CacheKeys :
          analysisCache[k] # NoEntry => IsConsistent(analysisCache[k])

\* A request was built from an Analysis of two records that a query computed itself.
C29_Witness ==
    \E t \in 1..MaxTasks :
        /\ task[t].pc = "sent"
        /\ ~task[t].hit
        /\ task[t].request.repo_context.fileCount = 2
        /\ Len(task[t].request.repo_context.files) = 2
        /\ task[t].request.repo_context.fingerprint = task[t].result.fingerprint

\* In this step 'Rebuild Analysis' deletes the entry of the open folder and starts
\* invocation t.
Rebuilds(t) ==
    /\ task[t].pc = "idle"
    /\ task'[t].pc # "idle"
    /\ task'[t].caller = "rebuild"

\* C30: there is no interference between workspace folders. An analysis stores its
\* result under the key of the folder it was started for and under no other, with
\* the name and the path of that folder, also when the workspace folders have changed
\* while it ran; a store or a rebuild for one key leaves the entry of every other key
\* as it was; and every entry is the Analysis of the folder of its key.
C30_NoCrossRootInterference ==
    [][/\ \A t \in 1..MaxTasks :
             /\ Completes(t) =>
                    /\ task'[t].result.workspaceName = task[t].folder.name
                    /\ task'[t].result.workspaceRoot = task[t].folder.fsPath
                    /\ analysisCache'[task[t].folder.uri] = task'[t].result
                    /\ \A k \in CacheKeys \ {task[t].folder.uri} :
                           analysisCache'[k] = analysisCache[k]
             /\ Rebuilds(t) =>
                    /\ task'[t].folder = workspaceFolders[1]
                    /\ \A k \in CacheKeys \ {workspaceFolders[1].uri} :
                           analysisCache'[k] = analysisCache[k]
       /\ \A k \in CacheKeys :
             analysisCache'[k] # NoEntry =>
                 "file://" \o analysisCache'[k].workspaceRoot = k]_vars

\* The cache holds an entry for each of two folders, each with the name and the path
\* of its own folder: the workspace folder changed while the first analysis ran.
C30_Witness ==
    /\ analysisCache[FolderApp.uri] # NoEntry
    /\ analysisCache[FolderLib.uri] # NoEntry
    /\ analysisCache[FolderApp.uri].workspaceName = "app"
    /\ analysisCache[FolderLib.uri].workspaceName = "lib"
    /\ analysisCache[FolderLib.uri].workspaceRoot = "/w/lib"

\* C31: a request goes to the backend only for a handler that got an Analysis: a
\* handler to which analyzeWorkspace returned null never arms a timer, never has a
\* call pending or settled, and ends with exactly one message, which asks for an
\* open workspace.
WithoutAnalysis(q) == q.pc # "idle" /\ ~q.hasAnalysis

C31_NoRequestWithoutAnalysis ==
    \A i \in DOMAIN query :
        LET q == query[i]
        IN  /\ (q.pc \in {"fetch", "json", "text", "settled"} \/ q.timer # "none")
                    => q.hasAnalysis
            /\ WithoutAnalysis(q) =>
                    /\ q.pc = "responded"
                    /\ q.status = 0 /\ q.caught = None /\ q.outcome = Null
                    /\ q.messages = 1 /\ ~q.loading
                    /\ q.rendered # None
                    /\ includes(q.rendered[1], "Error:")
                    /\ includes(q.rendered[1], "Please ensure a workspace is open.")

C31_Witness ==
    \E i \in DOMAIN query :
        /\ WithoutAnalysis(query[i])
        /\ query[i].caller = "webview"
        /\ query[i].rendered = Some("**Error:** " \o NoAnalysisMessage)

\* The two pieces of guidance handleChatRequest can add to its error message.
HasEndpointNote(text) == includes(text, "endpoint is not yet implemented (404 error)")

HasTroubleshooting(text) == includes(text, "**Troubleshooting:**")

\* C32 (as claimed): handleChatRequest gives failure-specific guidance: a failure of
\* the connection is rendered with the start-the-backend steps and without the
\* 'not yet implemented (404 error)' note, and that note is rendered only when the
\* backend answered /query with HTTP 404.
C32_GuidanceMatchesFailure ==
    \A i \in DOMAIN query :
        LET q == query[i]
        IN  (q.pc = "responded" /\ q.caller = "chat" /\ Failed(q)) =>
                /\ ConnectionCaused(q) =>
                        HasTroubleshooting(q.rendered[1]) /\ ~HasEndpointNote(q.rendered[1])
                /\ HasEndpointNote(q.rendered[1]) => q.status = 404

\* C33: rebuildAnalysis never gets a snapshot from the cache. The step that requests
\* a rebuild leaves the entry of the folder deleted and the analysis at its file
\* enumeration, whatever the cache held and whatever other analyses are running; an
\* analysis made for a rebuild is never a cache hit, and what it returns is absence
\* or the Analysis it has assembled itself.
C33_RebuildAlwaysEnumerates ==
    [][\A t \in 1..MaxTasks :
          /\ Rebuilds(t) =>
                 /\ task'[t].pc = "findFiles"
                 /\ ~task'[t].hit
                 /\ task'[t].result = Pending
                 /\ analysisCache'[task'[t].folder.uri] = NoEntry
          /\ task[t].caller = "rebuild" =>
                 /\ ~task[t].hit
                 /\ task[t].pc = "done" => (task[t].result = Null \/ Computed(task[t]))
          /\ (task[t].caller = "rebuild" /\ Completes(t)) =>
                 /\ task'[t].result.files = task[t].fileInfos
                       \/ /\ Len(task'[t].result.files) = Len(task[t].fileInfos) + 1
                          /\ SubSeq(task'[t].result.files, 1, Len(task[t].fileInfos))
                                 = task[t].fileInfos
                 /\ task'[t].result.fileCount = Len(task'[t].result.files)]_vars

\* A rebuild is at its file enumeration next to a caller that holds the snapshot
\* which was cached before, and the entry of the folder is gone.
C33_Witness ==
    \E t, u \in 1..MaxTasks :
        /\ task[t].caller = "rebuild"
        /\ task[t].pc = "findFiles"
        /\ task[u].pc = "done"
        /\ task[u].hit
        /\ task[u].folder = task[t].folder
        /\ analysisCache[task[t].folder.uri] = NoEntry

\* C34 (as claimed): cached snapshots never go backwards in freshness: once a rebuild
\* has returned its Analysis, and until the cache is cleared or the entry deleted
\* again, no analysis whose enumeration began before the rebuild was requested
\* becomes the cached entry of the folder.
C34_NoStoreOlderThanRebuild ==
    [][\A u \in 1..MaxTasks :
          (Completes(u) /\ analysisCache'[task[u].folder.uri] = task'[u].result)
              => task[u].age # "superseded"]_vars

\* The Analysis respects the limits of these settings.
WithinLimits(analysis, cfg) ==
    /\ analysis.fileCount <= ConfiguredMaxFiles(cfg)
    /\ Len(analysis.files) <= ConfiguredMaxFiles(cfg)
    /\ \A i \in 1..Len(analysis.files) :
           analysis.files[i].sample # None =>
               Len(analysis.files[i].sample[1]) <= ConfiguredMaxBytesPerFile(cfg)

\* C35 (as claimed): every Analysis that analyzeWorkspace returns respects the limits
\* configured at the time of the call: the call that returns at once (from the cache)
\* the settings of that moment, the call that enumerates the settings it read when
\* it started.
C35_AnalysisWithinConfiguredLimits ==
    [][\A t \in 1..MaxTasks :
          /\ (task[t].pc = "idle" /\ task'[t].pc = "done" /\ IsAnalysis(task'[t].result))
                 => WithinLimits(task'[t].result, config)
          /\ Completes(t) => WithinLimits(task'[t].result, task[t].cfg)]_vars

\* The file enumeration of invocation t throws in this step.
EnumerationFails(t) ==
    /\ task[t].pc = "findFiles"
    /\ task'[t].pc = "done"
    /\ task'[t].result = Null

\* Invocation t is called in this step for a folder that has no cache entry.
CalledOnUncachedRoot(t) ==
    /\ task[t].pc = "idle"
    /\ task'[t].pc # "idle"
    /\ workspaceFolders # <<>>
    /\ analysisCache[workspaceFolders[1].uri] = NoEntry

\* C36: when the file enumeration throws, analyzeWorkspace returns null, stores
\* nothing and leaves every cache entry as it was; absence is never cached, a
\* running analysis ends in absence in no other way, and a later call that finds no
\* entry for the folder starts a new enumeration.
C36_EnumerationFailureStoresNothing ==
    [][/\ \A t \in 1..MaxTasks :
             /\ EnumerationFails(t) =>
                    /\ analysisCache' = analysisCache
                    /\ task'[t].fileInfos = <<>>
             /\ (Running(t) /\ task'[t].pc = "done" /\ task'[t].result = Null)
                    => EnumerationFails(t)
             /\ CalledOnUncachedRoot(t) =>
                    /\ task'[t].pc = "findFiles"
                    /\ task'[t].result = Pending
                    /\ task'[t].folder = workspaceFolders[1]
       /\ \A k \in CacheKeys : analysisCache'[k] = NoEntry \/ IsAnalysis(analysisCache'[k])]_vars

\* An enumeration has failed while the folder has an entry, stored by another
\* analysis of it: the entry is still there.
C36_Witness ==
    \E t \in 1..MaxTasks :
        /\ task[t].pc = "done"
        /\ task[t].result = Null
        /\ task[t].folder # NoFolder
        /\ IsAnalysis(analysisCache[task[t].folder.uri])
        /\ analysisCache[task[t].folder.uri].fileCount > 0

\* C37 (as claimed): once a sendQuery or testConnection call has returned or thrown,
\* for whatever reason, its timeout timer is no longer armed, and no timer fires for
\* a call that has settled.
C37_NoTimerArmedAfterSettling ==
    [][/\ \A i \in DOMAIN query :
             /\ Settled(query[i]) => query[i].timer # "armed"
             /\ (Settled(query[i]) /\ query'[i].timer = "fired") => query[i].timer = "fired"
       /\ connTest.pc = "done" => connTest.timer # "armed"
       /\ (connTest.pc = "done" /\ connTest'.timer = "fired") => connTest.timer = "fired"]_vars

\* The entries of a role in a history.
EntriesOf(history, role) == {k \in 1..Len(history) : history[k].role = role}

\* In this step _handleQuery invocation h starts on a query / comes to its end.
HandlerStarts(h) == handler[h].pc = "idle" /\ handler'[h].pc # "idle"

HandlerCompletes(h) == handler[h].pc # "idle" /\ handler'[h].pc = "idle"

Outstanding ==
    \/ toExtension # <<>>
    \/ \E h \in 1..MaxSends : handler[h].pc # "idle"
    \/ \E k \in 1..Len(toWebview) : toWebview[k].type \in {"queryResponse", "error"}

\* C39 (as claimed): the webview script never posts a 'query' message while an
\* earlier query is outstanding.
C39_NoSecondQueryWhileOutstanding ==
    [][Len(toExtension') > Len(toExtension) => ~Outstanding]_vars

====
